---- MODULE Spec2Model ----
EXTENDS Integers, Sequences, FiniteSets, TLC

(***************************************************************************)
(* hyprtag: the per-monitor tag state (src/src/state.rs), the set of       *)
(* monitors that owns one State each (src/src/monitor.rs) and the reader   *)
(* of the control socket (src/src/main.rs).                                *)
(*                                                                         *)
(* A State holds a fixed vector of tags, each an ordered list of window    *)
(* addresses, a bitmask of visible tags, the previous bitmask, the index   *)
(* of the active tag and the optional active window.  Every method of      *)
(* `impl State` is an operator from a state record (and its arguments) to  *)
(* a result record; every action of a specification is one call.           *)
(*                                                                         *)
(* Five state machines share the module, each with its specification:      *)
(*   Spec, SpecTagState  one State and the calls of its methods;           *)
(*   SpecMon             a MonitorsState and the calls of its methods;     *)
(*   SpecCtrl            the control connections, their reader tasks and   *)
(*                       the channel to the main loop;                     *)
(*   SpecTopo            monitors plugged and unplugged, the topology      *)
(*                       queries of monitor_added and their messages;      *)
(*   SpecLoop,           the loop of main with the State of main.rs, the   *)
(*   SpecLoopFair        event socket and the channel.                     *)
(* The variables of the other machines stay as they start.                 *)
(***************************************************************************)

\* Number of tags per State.  The program builds 32 (state.rs:42) and loops
\* over 0..32; the model keeps the same loops over 0..NumTags.
NumTags == 2

\* Number of distinct window addresses the environment may report.
MaxWindows == 2

\* Option::None for a window address / for an index.
NoWindow == 0
NoIndex == -1

Windows == 1..MaxWindows

\* 1 << n
shl1(n) == 2 ^ n

\* Every value a visibility mask restricted to NumTags bits can take.
Masks == 0..(shl1(NumTags) - 1)

\* mask & 1<<n != 0
bit_set(mask, n) == (mask \div shl1(n)) % 2 = 1

\* mask | 1<<n
or_bit(mask, n) == IF bit_set(mask, n) THEN mask ELSE mask + shl1(n)

\* mask & !(1<<n)
clear_bit(mask, n) == IF bit_set(mask, n) THEN mask - shl1(n) ELSE mask

Min(S) == CHOOSE x \in S : \A y \in S : x <= y

VARIABLES
    \* one State (src/src/state.rs)
    tags,              \* tags[n + 1] is the window_addrs of the tag of index n
    visible_tags,
    prev_tags,
    active_tag_index,
    active_window,
    \* the MonitorsState (src/src/monitor.rs)
    monitors,
    active_monitor_index,
    panicked,          \* a call on the MonitorsState panicked: the daemon is gone
    \* the control socket (src/src/main.rs)
    streams,
    handlers,
    channel,
    \* the topology of the window manager and the re-queries in flight
    \* (src/src/monitor.rs, src/src/hyprctl.rs)
    topology,
    requeries,
    \* the main loop (src/src/main.rs)
    daemon,            \* the State of main.rs
    main_loop,         \* where the loop stands, and how the binary was built
    event_sock,        \* what the window manager wrote and the loop has not read
    partial            \* what the pending read_line took from the socket

state_vars == <<tags, visible_tags, prev_tags, active_tag_index, active_window>>
monitors_vars == <<monitors, active_monitor_index, panicked>>
ctrl_vars == <<streams, handlers, channel>>
topo_vars == <<topology, requeries>>
loop_vars == <<daemon, main_loop, event_sock, partial>>

vars == <<state_vars, monitors_vars, ctrl_vars, topo_vars, loop_vars>>

\* The State the variables hold.
St ==
    [tags |-> tags,
     visible_tags |-> visible_tags,
     prev_tags |-> prev_tags,
     active_tag_index |-> active_tag_index,
     active_window |-> active_window]

\* Variant: a State built with no previous mask.
new_no_prev ==
    [tags |-> [n \in 1..NumTags |-> <<>>],
     visible_tags |-> 1,
     prev_tags |-> 0,
     active_tag_index |-> 0,
     active_window |-> NoWindow]

\* State::new
new ==
    [tags |-> [n \in 1..NumTags |-> <<>>],
     visible_tags |-> 1,
     prev_tags |-> 1,
     active_tag_index |-> 0,
     active_window |-> NoWindow]

\* Err(..): bail! returns before the result is built.
Err(s) ==
    [ok |-> FALSE, s |-> s, window_added |-> {}, window_removed |-> {},
     focus |-> NoWindow]

\* Ok(Changes { window_added, window_removed, focus })
Ok(s, added, removed, focus) ==
    [ok |-> TRUE, s |-> s, window_added |-> added, window_removed |-> removed,
     focus |-> focus]

\* Ok(()) of the methods that return no Changes
OkUnit(s) == Ok(s, {}, {}, NoWindow)

(***************************************************************************)
(* Lookups                                                                 *)
(***************************************************************************)

\* The positions (0-based) of addr in one window_addrs vector.
positions(window_addrs, addr) ==
    {i \in 0..(Len(window_addrs) - 1) : window_addrs[i + 1] = addr}

\* The tag indexes whose window_addrs contain addr.
holders(s, addr) ==
    {n \in 0..(NumTags - 1) : positions(s.tags[n + 1], addr) # {}}

\* State::find_window_tag_index: find_map over the tags; the first tag
\* holding addr.
find_window_tag_index(s, addr) ==
    IF holders(s, addr) = {} THEN NoIndex ELSE Min(holders(s, addr))

\* The inner find_map of find_window_indexes: the first position of addr in
\* the tag of index tag_index.
indexes_in_tag(s, tag_index, addr) ==
    IF tag_index = NoIndex
    THEN <<NoIndex, NoIndex>>
    ELSE <<tag_index, Min(positions(s.tags[tag_index + 1], addr))>>

\* State::find_window_indexes: <<tag_index, window_index>> of the first tag
\* holding addr and the first position in it.
find_window_indexes(s, addr) ==
    indexes_in_tag(s, find_window_tag_index(s, addr), addr)

(***************************************************************************)
(* Vec operations on a tag's window_addrs                                  *)
(***************************************************************************)

\* tag.window_addrs.push(window)
push_window(tgs, tag_index, window) ==
    [tgs EXCEPT ![tag_index + 1] = Append(@, window)]

\* Variant: the window is not taken out of its tag.
remove_window_noop(tgs, tag_index, window_index) == tgs

\* tag.window_addrs.remove(window_index)
remove_window(tgs, tag_index, window_index) ==
    [tgs EXCEPT ![tag_index + 1] =
        [i \in 1..(Len(@) - 1) |-> IF i <= window_index THEN @[i] ELSE @[i + 1]]]

(***************************************************************************)
(* Visible windows and their difference                                    *)
(***************************************************************************)

\* The WindowInfo values of one tag, in the order of its window_addrs; the
\* tag field is tag.id, which Tag::new sets to index + 1.
tag_infos(s, n) ==
    [i \in 1..Len(s.tags[n + 1]) |-> [addr |-> s.tags[n + 1][i], tag |-> n + 1]]

RECURSIVE visible_from(_, _)
\* The loop `for n in 0..32` of State::visible_windows, from n on.
visible_from(s, n) ==
    IF n >= NumTags
    THEN <<>>
    ELSE (IF bit_set(s.visible_tags, n) THEN tag_infos(s, n) ELSE <<>>)
         \o visible_from(s, n + 1)

RECURSIVE all_from(_, _)
all_from(s, n) ==
    IF n >= NumTags THEN <<>> ELSE tag_infos(s, n) \o all_from(s, n + 1)

\* Variant: the windows of every tag, whatever visible_tags says.
visible_windows_all(s) == all_from(s, 0)

\* State::visible_windows
visible_windows(s) == visible_from(s, 0)

\* collect::<HashSet<WindowInfo>>(): WindowInfo is equal and hashes by addr
\* alone, and inserting an equal element keeps the one already there.
hash_set(v) ==
    {v[i] : i \in {k \in 1..Len(v) : \A j \in 1..(k - 1) : v[j].addr # v[k].addr}}

\* Variant: the difference with WindowInfo compared on every field.
difference_derived_eq(a, b) == a \ b

\* a.difference(&b), by addr
difference(a, b) == {x \in a : \A y \in b : y.addr # x.addr}

\* The two differences of window_diff, on the two HashSets.
differences(a, b) == <<difference(b, a), difference(a, b)>>

\* window_diff: <<added, deleted>>
window_diff(a, b) == differences(hash_set(a), hash_set(b))

(***************************************************************************)
(* State::set_visible_tags and the methods built on it                     *)
(***************************************************************************)

RECURSIVE scan_tags(_, _, _, _)
\* The loop `for n in 0..32` of set_visible_tags, from n on.  acc holds
\* self.visible_tags, first_window and first_tag_index.
scan_tags(s, tgs, n, acc) ==
    IF n >= NumTags
    THEN acc
    ELSE IF bit_set(tgs, n)
         THEN scan_tags(s, tgs, n + 1,
                [visible_tags |-> or_bit(acc.visible_tags, n),
                 first_window |->
                    IF acc.first_window = NoWindow /\ Len(s.tags[n + 1]) > 0
                    THEN s.tags[n + 1][1]
                    ELSE acc.first_window,
                 first_tag_index |->
                    IF acc.first_tag_index = NoIndex THEN n ELSE acc.first_tag_index])
         ELSE scan_tags(s, tgs, n + 1,
                [acc EXCEPT !.visible_tags = clear_bit(acc.visible_tags, n)])

\* The whole loop, from the State as it is when the loop starts.
scan(s, tgs) ==
    scan_tags(s, tgs, 0,
        [visible_tags |-> s.visible_tags,
         first_window |-> NoWindow,
         first_tag_index |-> NoIndex])

\* Variant: prev_tags is left as it was.
save_prev_tags_skip(s) == s

\* self.prev_tags = self.visible_tags
save_prev_tags(s) == [s EXCEPT !.prev_tags = s.visible_tags]

\* Variant: the active window is dropped whichever tag holds it.
focus_of_drop(s, tgs, first_tag_index, first_window, found) ==
    <<[s EXCEPT !.active_tag_index = first_tag_index,
                !.active_window = NoWindow],
      first_window>>

\* The `let focus = if .. else ..` of set_visible_tags, given the tag index
\* found for the active window: <<the State, the focus>>.
focus_of(s, tgs, first_tag_index, first_window, found) ==
    IF found # NoIndex /\ bit_set(tgs, found)
    THEN <<[s EXCEPT !.active_tag_index = found], s.active_window>>
    ELSE <<[s EXCEPT !.active_tag_index = first_tag_index,
                     !.active_window = NoWindow],
           first_window>>

\* Variant: the active tag index is never moved.
select_active_keep(s, tgs, first_tag_index, first_window) ==
    <<[s EXCEPT !.active_window = NoWindow], first_window>>

\* The end of set_visible_tags: the tag of the active window, and from it
\* the new active_tag_index, active_window and the focus to report.
select_active(s, tgs, first_tag_index, first_window) ==
    focus_of(s, tgs, first_tag_index, first_window,
        IF s.active_window # NoWindow
        THEN find_window_tag_index(s, s.active_window)
        ELSE NoIndex)

\* Ok(Changes { .. }) of set_visible_tags, from what window_diff and the
\* focus selection gave.
changes_of(diff, sel) == Ok(sel[1], diff[1], diff[2], sel[2])

\* set_visible_tags from `let w2` on: s is the State after the loop.
after_scan(w1, s, tgs, acc) ==
    changes_of(window_diff(w1, visible_windows(s)),
               select_active(s, tgs, acc.first_tag_index, acc.first_window))

\* set_visible_tags once w1 is taken and prev_tags saved: the loop, and on.
scanned(w1, s, tgs, acc) ==
    after_scan(w1, [s EXCEPT !.visible_tags = acc.visible_tags], tgs, acc)

\* set_visible_tags after its check of the mask.
apply_visible_tags(s, tgs) ==
    scanned(visible_windows(s), save_prev_tags(s), tgs, scan(save_prev_tags(s), tgs))

\* Variant: the mask is not checked.
set_visible_tags_unchecked(s, tgs) == apply_visible_tags(s, tgs)

\* Variant: prev_tags is saved before the mask is checked.
set_visible_tags_early_save(s, tgs) ==
    IF tgs = 0 THEN Err(save_prev_tags(s)) ELSE apply_visible_tags(s, tgs)

\* State::set_visible_tags
set_visible_tags(s, tgs) ==
    IF tgs = 0 THEN Err(s) ELSE apply_visible_tags(s, tgs)

\* State::restore_prev_tags
restore_prev_tags(s) == set_visible_tags(s, s.prev_tags)

\* Variant: the bit is only ever set.
toggle_tag_set_only(s, tag) ==
    set_visible_tags(s, or_bit(s.visible_tags, tag - 1))

\* State::toggle_tag
toggle_tag(s, tag) ==
    set_visible_tags(s,
        IF bit_set(s.visible_tags, tag - 1)
        THEN clear_bit(s.visible_tags, tag - 1)
        ELSE or_bit(s.visible_tags, tag - 1))

(***************************************************************************)
(* Window bookkeeping                                                      *)
(***************************************************************************)

\* Variant: the window always goes to the first tag.
new_window_added_first_tag(s, window) ==
    IF find_window_tag_index(s, window) # NoIndex
    THEN Err(s)
    ELSE OkUnit([s EXCEPT !.tags = push_window(@, 0, window)])

\* State::new_window_added
new_window_added(s, window) ==
    IF find_window_tag_index(s, window) # NoIndex
    THEN Err(s)
    ELSE IF s.active_tag_index \in 0..(NumTags - 1)
         THEN OkUnit([s EXCEPT !.tags = push_window(@, s.active_tag_index, window)])
         ELSE OkUnit(s)

\* Variant: the tag of the focused window becomes the active tag.
focus_after_add_retag(added, window) ==
    IF ~added.ok
    THEN Err(added.s)
    ELSE OkUnit([added.s EXCEPT !.active_window = window,
                                !.active_tag_index =
                                    find_window_tag_index(added.s, window)])

\* focus_window_changed after `self.new_window_added(window.clone())?`.
focus_after_add(added, window) ==
    IF ~added.ok
    THEN Err(added.s)
    ELSE OkUnit([added.s EXCEPT !.active_window = window])

\* State::focus_window_changed
focus_window_changed(s, window) ==
    focus_after_add(
        IF find_window_tag_index(s, window) = NoIndex
        THEN new_window_added(s, window)
        ELSE OkUnit(s),
        window)

\* window_removed, given what find_window_indexes returned.
remove_found(s, idx) ==
    IF idx[1] = NoIndex
    THEN Err(s)
    ELSE OkUnit([s EXCEPT !.tags = remove_window(@, idx[1], idx[2])])

\* State::window_removed
window_removed(s, window) == remove_found(s, find_window_indexes(s, window))

\* Variant: the destination is compared as a tag id, not as an index.
same_tag_off_by_one(dest_tag_index, tag_index) == dest_tag_index + 1 = tag_index

\* dest_tag_index == tag_index
same_tag(dest_tag_index, tag_index) == dest_tag_index = tag_index

\* Variant: the active window is reported as the focus.
moved_refocus(s, diff) == Ok(s, diff[1], diff[2], s.active_window)

\* The end of move_window: the diff of the two snapshots, focus: None.
moved(s, diff) == Ok(s, diff[1], diff[2], NoWindow)

\* move_window from `let w2` on: s is the State with the window relocated.
relocated(w1, s) == moved(s, window_diff(w1, visible_windows(s)))

\* Variant: the window is taken out of its tag before the destination is
\* compared with it.
move_found_remove_first(s, dest_tag_index, w, idx) ==
    IF idx[1] = NoIndex THEN Err(s)
    ELSE IF same_tag(dest_tag_index, idx[1])
         THEN Err([s EXCEPT !.tags = remove_window(@, idx[1], idx[2])])
    ELSE IF dest_tag_index \notin 0..(NumTags - 1) THEN Err(s)
    ELSE relocated(visible_windows(s),
            [s EXCEPT !.tags =
                remove_window(push_window(@, dest_tag_index, w), idx[1], idx[2])])

\* move_window, given the window and what find_window_indexes returned.
move_found(s, dest_tag_index, w, idx) ==
    IF idx[1] = NoIndex THEN Err(s)
    ELSE IF same_tag(dest_tag_index, idx[1]) THEN Err(s)
    ELSE IF dest_tag_index \notin 0..(NumTags - 1) THEN Err(s)
    ELSE relocated(visible_windows(s),
            [s EXCEPT !.tags =
                remove_window(push_window(@, dest_tag_index, w), idx[1], idx[2])])

\* move_window, given window.or(self.active_window.clone()).
move_effective(s, dest_tag_index, w) ==
    IF w = NoWindow
    THEN Err(s)
    ELSE move_found(s, dest_tag_index, w, find_window_indexes(s, w))

\* State::move_window; window is NoWindow for None.
move_window(s, dest_tag, window) ==
    move_effective(s, dest_tag - 1,
        IF window # NoWindow THEN window ELSE s.active_window)

(***************************************************************************)
(* The specification: one action per call on the State                     *)
(***************************************************************************)

\* Tag ids a caller may pass: 1..NumTags name a tag, NumTags + 1 is past the
\* end of the vector.
TagIds == 1..NumTags
TagArgs == 1..(NumTags + 1)

\* An Option<String> argument.
WindowArgs == Windows \cup {NoWindow}

\* No MonitorsState was built.
NoMonitors ==
    /\ monitors = <<>>
    /\ active_monitor_index = 0
    /\ panicked = FALSE

\* No control connection was accepted and the channel is empty.
NoCtrl ==
    /\ streams = <<>>
    /\ handlers = <<>>
    /\ channel = <<>>

\* No re-query of the topology is in flight.
NoRequeries ==
    /\ topology = <<>>
    /\ requeries = <<>>

\* No main loop runs.
NoLoop ==
    /\ daemon = <<>>
    /\ main_loop = <<>>
    /\ event_sock = <<>>
    /\ partial = <<>>

\* The variables hold State::new().
NewState ==
    /\ tags = new.tags
    /\ visible_tags = new.visible_tags
    /\ prev_tags = new.prev_tags
    /\ active_tag_index = new.active_tag_index
    /\ active_window = new.active_window

Init == NewState /\ NoMonitors /\ NoCtrl /\ NoRequeries /\ NoLoop

\* Each action is one call; whether it returns Ok or Err, the State is the
\* one the call leaves (r.s).
SetVisibleTags ==
    \E m \in Masks :
        \E r \in {set_visible_tags(St, m)} :
           /\ tags' = r.s.tags
           /\ visible_tags' = r.s.visible_tags
           /\ prev_tags' = r.s.prev_tags
           /\ active_tag_index' = r.s.active_tag_index
           /\ active_window' = r.s.active_window
           /\ UNCHANGED <<monitors_vars, ctrl_vars, topo_vars, loop_vars>>

RestorePrevTags ==
    \E r \in {restore_prev_tags(St)} :
       /\ tags' = r.s.tags
       /\ visible_tags' = r.s.visible_tags
       /\ prev_tags' = r.s.prev_tags
       /\ active_tag_index' = r.s.active_tag_index
       /\ active_window' = r.s.active_window
       /\ UNCHANGED <<monitors_vars, ctrl_vars, topo_vars, loop_vars>>

ToggleTag ==
    \E t \in TagIds :
        \E r \in {toggle_tag(St, t)} :
           /\ tags' = r.s.tags
           /\ visible_tags' = r.s.visible_tags
           /\ prev_tags' = r.s.prev_tags
           /\ active_tag_index' = r.s.active_tag_index
           /\ active_window' = r.s.active_window
           /\ UNCHANGED <<monitors_vars, ctrl_vars, topo_vars, loop_vars>>

NewWindowAdded ==
    \E w \in Windows :
        \E r \in {new_window_added(St, w)} :
           /\ tags' = r.s.tags
           /\ visible_tags' = r.s.visible_tags
           /\ prev_tags' = r.s.prev_tags
           /\ active_tag_index' = r.s.active_tag_index
           /\ active_window' = r.s.active_window
           /\ UNCHANGED <<monitors_vars, ctrl_vars, topo_vars, loop_vars>>

FocusWindowChanged ==
    \E w \in Windows :
        \E r \in {focus_window_changed(St, w)} :
           /\ tags' = r.s.tags
           /\ visible_tags' = r.s.visible_tags
           /\ prev_tags' = r.s.prev_tags
           /\ active_tag_index' = r.s.active_tag_index
           /\ active_window' = r.s.active_window
           /\ UNCHANGED <<monitors_vars, ctrl_vars, topo_vars, loop_vars>>

WindowRemoved ==
    \E w \in Windows :
        \E r \in {window_removed(St, w)} :
           /\ tags' = r.s.tags
           /\ visible_tags' = r.s.visible_tags
           /\ prev_tags' = r.s.prev_tags
           /\ active_tag_index' = r.s.active_tag_index
           /\ active_window' = r.s.active_window
           /\ UNCHANGED <<monitors_vars, ctrl_vars, topo_vars, loop_vars>>

MoveWindow ==
    \E t \in TagArgs, w \in WindowArgs :
        \E r \in {move_window(St, t, w)} :
           /\ tags' = r.s.tags
           /\ visible_tags' = r.s.visible_tags
           /\ prev_tags' = r.s.prev_tags
           /\ active_tag_index' = r.s.active_tag_index
           /\ active_window' = r.s.active_window
           /\ UNCHANGED <<monitors_vars, ctrl_vars, topo_vars, loop_vars>>

Next ==
    \/ SetVisibleTags
    \/ RestorePrevTags
    \/ ToggleTag
    \/ NewWindowAdded
    \/ FocusWindowChanged
    \/ WindowRemoved
    \/ MoveWindow

Spec == Init /\ [][Next]_vars

\* The same machine, under the name the contracts of the single methods
\* (C11 to C15) are checked with.
SpecTagState == Init /\ [][Next]_vars

(***************************************************************************)
(* MonitorsState (src/src/monitor.rs): a vector of monitors, each with its *)
(* State, and the index of the focused one.  A method is an operator from  *)
(* the MonitorsState record to a result: Ok or Err as the method returns,  *)
(* or a panic when it indexes the vector out of range.                     *)
(***************************************************************************)

\* Number of monitors the window manager may report.
MaxMonitors == 2

\* Monitor names, and the ids the window manager gives them.
MonitorNames == 1..MaxMonitors
MonitorIds == 0..(MaxMonitors - 1)

\* Monitor { id, name, state }
Monitor(id, name, state) == [id |-> id, name |-> name, state |-> state]

\* The MonitorsState the variables hold.
Ms == [monitors |-> monitors, active_monitor_index |-> active_monitor_index]

\* Results of the methods of MonitorsState.  value is what the method returns
\* besides Ok: the result of the State method the call went to (the Changes
\* of Changes { active_monitor_index, changes }), or the tuple of
\* monitor_removed.
MonResult(ok, panic, ms, value) ==
    [ok |-> ok, panic |-> panic, ms |-> ms,
     active_monitor_index |-> ms.active_monitor_index, value |-> value]

MonOk(ms) == MonResult(TRUE, FALSE, ms, OkUnit(new))
MonErr(ms) == MonResult(FALSE, FALSE, ms, Err(new))
\* Indexing self.monitors out of range: the thread panics where it stands.
MonPanic(ms) == MonResult(FALSE, TRUE, ms, Err(new))

\* i is an index of self.monitors.
in_monitors(ms, i) == i \in 0..(Len(ms.monitors) - 1)

\* The indexes of the monitors named name.
named(ms, name) == {i \in 0..(Len(ms.monitors) - 1) : ms.monitors[i + 1].name = name}

\* The indexes of the monitors whose State holds window.
tracking(ms, window) ==
    {i \in 0..(Len(ms.monitors) - 1) :
        find_window_tag_index(ms.monitors[i + 1].state, window) # NoIndex}

\* self.monitors[i].state after a call on it returned r: the call mutates
\* the State in place, and its Ok or Err is the method's.
delegated(ms, i, r) ==
    MonResult(r.ok, FALSE, [ms EXCEPT !.monitors[i + 1].state = r.s], r)

\* MonitorInfo { id, name, focused }
MonitorInfo(id, name, focused) == [id |-> id, name |-> name, focused |-> focused]

\* impl From<Vec<MonitorInfo>> for MonitorsState
from_monitor_infos(value) ==
    [monitors |-> [k \in 1..Len(value) |-> Monitor(value[k].id, value[k].name, new)],
     active_monitor_index |->
        IF \E k \in 1..Len(value) : value[k].focused
        THEN Min({k \in 1..Len(value) : value[k].focused}) - 1
        ELSE 0]

\* MonitorsState::next_monitor
next_monitor(ms) ==
    IF ms.active_monitor_index + 1 < Len(ms.monitors)
    THEN ms.active_monitor_index + 1
    ELSE 0

\* MonitorsState::focused_monitor_changed
MonitorsState_focused_monitor_changed(ms, name) ==
    IF named(ms, name) = {}
    THEN MonErr(ms)
    ELSE MonOk([ms EXCEPT !.active_monitor_index = Min(named(ms, name))])

\* Variant: the other monitors are not looked at.
MonitorsState_new_window_added_unchecked(ms, window) ==
    IF ~in_monitors(ms, ms.active_monitor_index) THEN MonPanic(ms)
    ELSE delegated(ms, ms.active_monitor_index,
            new_window_added(ms.monitors[ms.active_monitor_index + 1].state, window))

\* MonitorsState::new_window_added
MonitorsState_new_window_added(ms, window) ==
    IF tracking(ms, window) \ {ms.active_monitor_index} # {} THEN MonErr(ms)
    ELSE IF ~in_monitors(ms, ms.active_monitor_index) THEN MonPanic(ms)
    ELSE delegated(ms, ms.active_monitor_index,
            new_window_added(ms.monitors[ms.active_monitor_index + 1].state, window))

\* MonitorsState::window_removed
MonitorsState_window_removed(ms, window) ==
    IF ~in_monitors(ms, ms.active_monitor_index) THEN MonPanic(ms)
    ELSE delegated(ms, ms.active_monitor_index,
            window_removed(ms.monitors[ms.active_monitor_index + 1].state, window))

\* State::active_window and State::active_tag_index, the getters monitor.rs
\* calls.
state_active_window(s) == s.active_window
state_active_tag_index(s) == s.active_tag_index

RECURSIVE all_addrs_from(_, _)
all_addrs_from(s, n) ==
    IF n >= NumTags THEN <<>> ELSE s.tags[n + 1] \o all_addrs_from(s, n + 1)

\* State::all_window_addrs, as monitor.rs calls it: every address the State
\* holds, tag after tag.
all_window_addrs(s) == all_addrs_from(s, 0)

\* State::focus_window_changed(window, new_window), as monitor.rs calls it:
\* the window is added first when the caller found it on no monitor.
focus_window_changed_new(s, window, new_window) ==
    focus_after_add(
        IF new_window THEN new_window_added(s, window) ELSE OkUnit(s),
        window)

RECURSIVE remove_scan(_, _, _)
\* The find_map over self.monitors.iter_mut() of move_window_to_monitor,
\* from the monitor of index i on: window_removed is called on each State
\* until one call returns Ok.  <<whether one did, the MonitorsState left>>.
remove_scan(ms, window, i) ==
    IF i >= Len(ms.monitors)
    THEN <<FALSE, ms>>
    ELSE IF window_removed(ms.monitors[i + 1].state, window).ok
         THEN <<TRUE, [ms EXCEPT !.monitors[i + 1].state = window_removed(@, window).s]>>
         ELSE remove_scan(
                [ms EXCEPT !.monitors[i + 1].state = window_removed(@, window).s],
                window, i + 1)

\* Variant: no State gives the window up, and the scan reports it did.
remove_everywhere_kept(ms, window) == <<tracking(ms, window) # {}, ms>>

\* let window_removed = self.monitors.iter_mut().find_map(..)
remove_everywhere(ms, window) == remove_scan(ms, window, 0)

\* The end of move_window_to_monitor, given what the scan returned.
add_to_dest(dest_monitor, window, removed) ==
    IF ~removed[1] THEN MonErr(removed[2])
    ELSE IF ~in_monitors(removed[2], dest_monitor) THEN MonPanic(removed[2])
    ELSE delegated(removed[2], dest_monitor,
            new_window_added(removed[2].monitors[dest_monitor + 1].state, window))

\* move_window_to_monitor once the window is known (NoWindow for None).
move_known_window(ms, dest_monitor, window) ==
    IF window = NoWindow
    THEN MonErr(ms)
    ELSE add_to_dest(dest_monitor, window, remove_everywhere(ms, window))

\* MonitorsState::move_window_to_monitor
MonitorsState_move_window_to_monitor(ms, dest_monitor, window) ==
    IF window # NoWindow THEN move_known_window(ms, dest_monitor, window)
    ELSE IF ~in_monitors(ms, ms.active_monitor_index) THEN MonPanic(ms)
    ELSE move_known_window(ms, dest_monitor,
            state_active_window(ms.monitors[ms.active_monitor_index + 1].state))

\* MonitorsState::focus_window_changed
MonitorsState_focus_window_changed(ms, window) ==
    IF ~in_monitors(ms, ms.active_monitor_index) THEN MonPanic(ms)
    ELSE delegated(ms, ms.active_monitor_index,
            focus_window_changed_new(ms.monitors[ms.active_monitor_index + 1].state,
                                     window, tracking(ms, window) = {}))

\* MonitorsState::move_window
MonitorsState_move_window(ms, dest_tag, window) ==
    IF ~in_monitors(ms, ms.active_monitor_index) THEN MonPanic(ms)
    ELSE delegated(ms, ms.active_monitor_index,
            move_window(ms.monitors[ms.active_monitor_index + 1].state, dest_tag, window))

\* MonitorsState::set_visible_tags
MonitorsState_set_visible_tags(ms, tgs) ==
    IF ~in_monitors(ms, ms.active_monitor_index) THEN MonPanic(ms)
    ELSE delegated(ms, ms.active_monitor_index,
            set_visible_tags(ms.monitors[ms.active_monitor_index + 1].state, tgs))

\* MonitorsState::toggle_tag
MonitorsState_toggle_tag(ms, tag) ==
    IF ~in_monitors(ms, ms.active_monitor_index) THEN MonPanic(ms)
    ELSE delegated(ms, ms.active_monitor_index,
            toggle_tag(ms.monitors[ms.active_monitor_index + 1].state, tag))

\* MonitorsState::restore_prev_tags
MonitorsState_restore_prev_tags(ms) ==
    IF ~in_monitors(ms, ms.active_monitor_index) THEN MonPanic(ms)
    ELSE delegated(ms, ms.active_monitor_index,
            restore_prev_tags(ms.monitors[ms.active_monitor_index + 1].state))

RECURSIVE migrate(_, _, _, _)
RECURSIVE migrate_next(_, _, _, _)
\* The loop of monitor_removed from windows[k] on:
\* self.move_window_to_monitor(first_monitor.id, Some(w.clone()))? for each.
migrate(ms, dest_monitor, windows, k) ==
    IF k > Len(windows)
    THEN MonOk(ms)
    ELSE migrate_next(
            MonitorsState_move_window_to_monitor(ms, dest_monitor, windows[k]),
            dest_monitor, windows, k)

\* The `?` on one call of the loop: an Err (or the panic) ends the method.
migrate_next(r, dest_monitor, windows, k) ==
    IF r.ok THEN migrate(r.ms, dest_monitor, windows, k + 1) ELSE r

\* self.monitors.remove(removed_index)
remove_monitor(mons, removed_index) ==
    [k \in 1..(Len(mons) - 1) |-> IF k <= removed_index THEN mons[k] ELSE mons[k + 1]]

\* The end of monitor_removed, given how the loop ended.
drop_monitor(r, removed_index, value) ==
    IF ~r.ok
    THEN r
    ELSE MonResult(TRUE, FALSE,
            [r.ms EXCEPT !.monitors = remove_monitor(@, removed_index)], value)

\* monitor_removed once the departing monitor (removed_index) and the first
\* other one (index) are found.
remove_found_monitor(ms, removed_index, index) ==
    drop_monitor(
        migrate(ms, ms.monitors[index + 1].id,
                all_window_addrs(ms.monitors[removed_index + 1].state), 1),
        removed_index,
        <<index,
          state_active_tag_index(ms.monitors[index + 1].state),
          all_window_addrs(ms.monitors[removed_index + 1].state)>>)

\* MonitorsState::monitor_removed
MonitorsState_monitor_removed(ms, name) ==
    IF named(ms, name) = {} THEN MonErr(ms)
    ELSE IF named(ms, name) = 0..(Len(ms.monitors) - 1) THEN MonErr(ms)
    ELSE remove_found_monitor(ms, Min(named(ms, name)),
            Min((0..(Len(ms.monitors) - 1)) \ named(ms, name)))

\* Variant: the monitor is pushed whatever the names already registered.
MonitorsState_monitor_added_with_object_unchecked(ms, monitor) ==
    MonOk([ms EXCEPT !.monitors = Append(@, monitor)])

\* MonitorsState::monitor_added_with_object
MonitorsState_monitor_added_with_object(ms, monitor) ==
    IF named(ms, monitor.name) # {}
    THEN MonErr(ms)
    ELSE MonOk([ms EXCEPT !.monitors = Append(@, monitor)])

(***************************************************************************)
(* The specification of the MonitorsState: one action per call.  After a   *)
(* panic the daemon is gone and no call follows.                           *)
(***************************************************************************)

\* A destination of move_window_to_monitor: an index of the vector, or the
\* first one past the most monitors there can be.
MonitorArgs == 0..MaxMonitors

\* The topology snapshot at startup: monitor k has id k - 1; the monitor of
\* index f is the focused one (none is when f = MaxMonitors).
Topology(f) == [k \in 1..MaxMonitors |-> MonitorInfo(k - 1, k, k - 1 = f)]

InitMon ==
    /\ NewState
    /\ NoCtrl
    /\ NoRequeries
    /\ NoLoop
    /\ panicked = FALSE
    /\ \E f \in 0..MaxMonitors :
          /\ monitors = from_monitor_infos(Topology(f)).monitors
          /\ active_monitor_index = from_monitor_infos(Topology(f)).active_monitor_index

FocusedMonitorChanged ==
    /\ ~panicked
    /\ \E name \in MonitorNames :
          \E r \in {MonitorsState_focused_monitor_changed(Ms, name)} :
             /\ monitors' = r.ms.monitors
             /\ active_monitor_index' = r.ms.active_monitor_index
             /\ panicked' = r.panic
    /\ UNCHANGED <<state_vars, ctrl_vars, topo_vars, loop_vars>>

MonNewWindowAdded ==
    /\ ~panicked
    /\ \E w \in Windows :
          \E r \in {MonitorsState_new_window_added(Ms, w)} :
             /\ monitors' = r.ms.monitors
             /\ active_monitor_index' = r.ms.active_monitor_index
             /\ panicked' = r.panic
    /\ UNCHANGED <<state_vars, ctrl_vars, topo_vars, loop_vars>>

MonWindowRemoved ==
    /\ ~panicked
    /\ \E w \in Windows :
          \E r \in {MonitorsState_window_removed(Ms, w)} :
             /\ monitors' = r.ms.monitors
             /\ active_monitor_index' = r.ms.active_monitor_index
             /\ panicked' = r.panic
    /\ UNCHANGED <<state_vars, ctrl_vars, topo_vars, loop_vars>>

MonFocusWindowChanged ==
    /\ ~panicked
    /\ \E w \in Windows :
          \E r \in {MonitorsState_focus_window_changed(Ms, w)} :
             /\ monitors' = r.ms.monitors
             /\ active_monitor_index' = r.ms.active_monitor_index
             /\ panicked' = r.panic
    /\ UNCHANGED <<state_vars, ctrl_vars, topo_vars, loop_vars>>

MoveWindowToMonitor ==
    /\ ~panicked
    /\ \E d \in MonitorArgs, w \in WindowArgs :
          \E r \in {MonitorsState_move_window_to_monitor(Ms, d, w)} :
             /\ monitors' = r.ms.monitors
             /\ active_monitor_index' = r.ms.active_monitor_index
             /\ panicked' = r.panic
    /\ UNCHANGED <<state_vars, ctrl_vars, topo_vars, loop_vars>>

MonMoveWindow ==
    /\ ~panicked
    /\ \E t \in TagArgs, w \in WindowArgs :
          \E r \in {MonitorsState_move_window(Ms, t, w)} :
             /\ monitors' = r.ms.monitors
             /\ active_monitor_index' = r.ms.active_monitor_index
             /\ panicked' = r.panic
    /\ UNCHANGED <<state_vars, ctrl_vars, topo_vars, loop_vars>>

MonSetVisibleTags ==
    /\ ~panicked
    /\ \E m \in Masks :
          \E r \in {MonitorsState_set_visible_tags(Ms, m)} :
             /\ monitors' = r.ms.monitors
             /\ active_monitor_index' = r.ms.active_monitor_index
             /\ panicked' = r.panic
    /\ UNCHANGED <<state_vars, ctrl_vars, topo_vars, loop_vars>>

MonToggleTag ==
    /\ ~panicked
    /\ \E t \in TagIds :
          \E r \in {MonitorsState_toggle_tag(Ms, t)} :
             /\ monitors' = r.ms.monitors
             /\ active_monitor_index' = r.ms.active_monitor_index
             /\ panicked' = r.panic
    /\ UNCHANGED <<state_vars, ctrl_vars, topo_vars, loop_vars>>

MonRestorePrevTags ==
    /\ ~panicked
    /\ \E r \in {MonitorsState_restore_prev_tags(Ms)} :
          /\ monitors' = r.ms.monitors
          /\ active_monitor_index' = r.ms.active_monitor_index
          /\ panicked' = r.panic
    /\ UNCHANGED <<state_vars, ctrl_vars, topo_vars, loop_vars>>

MonitorRemoved ==
    /\ ~panicked
    /\ \E name \in MonitorNames :
          \E r \in {MonitorsState_monitor_removed(Ms, name)} :
             /\ monitors' = r.ms.monitors
             /\ active_monitor_index' = r.ms.active_monitor_index
             /\ panicked' = r.panic
    /\ UNCHANGED <<state_vars, ctrl_vars, topo_vars, loop_vars>>

\* Ctrl::MonitorAdded(monitor) is handled: the monitor was built by the task
\* monitor_added spawned, from the topology it fetched: a State::new(), the
\* name of the event and an id no monitor of the topology shares.
MonitorAddedWithObject ==
    /\ ~panicked
    /\ \E name \in MonitorNames, id \in MonitorIds :
          /\ \A k \in 1..Len(monitors) : monitors[k].name # name => monitors[k].id # id
          /\ \E r \in {MonitorsState_monitor_added_with_object(Ms, Monitor(id, name, new))} :
                /\ monitors' = r.ms.monitors
                /\ active_monitor_index' = r.ms.active_monitor_index
                /\ panicked' = r.panic
    /\ UNCHANGED <<state_vars, ctrl_vars, topo_vars, loop_vars>>

NextMon ==
    \/ FocusedMonitorChanged
    \/ MonNewWindowAdded
    \/ MonWindowRemoved
    \/ MonFocusWindowChanged
    \/ MoveWindowToMonitor
    \/ MonMoveWindow
    \/ MonSetVisibleTags
    \/ MonToggleTag
    \/ MonRestorePrevTags
    \/ MonitorRemoved
    \/ MonitorAddedWithObject

SpecMon == InitMon /\ [][NextMon]_vars

(***************************************************************************)
(* The control socket (src/src/main.rs): ctrl_listener accepts the         *)
(* connections and spawns one handle_ctrl_socket task per connection; the  *)
(* task reads lines, parses them and sends Ctrl messages on the channel    *)
(* the main loop receives from.                                            *)
(*                                                                         *)
(* A line is a sequence of symbols: a word of letters ("show"), a digit,   *)
(* the space, "\r" or "\n".  streams[c] is what the client of connection   *)
(* c wrote, line by line, and whether it closed; handlers[c] is the task:  *)
(* where it stands (pc), how many lines it read, its buf, the message it   *)
(* is sending and the messages it has sent; channel is the queue.          *)
(***************************************************************************)

\* Connections accepted at most, and lines a client writes at most.
MaxConns == 2
MaxLines == 2

\* mpsc::channel(10)
ChannelCapacity == 10

\* The words a client starts a line with and the tag numbers it gives.
Commands == {"show", "toggle", "move"}
Digits == <<"0", "1", "2", "3", "4", "5", "6", "7", "8", "9">>
TagDigits == {Digits[k + 1] : k \in 1..NumTags}

\* The newline-terminated command lines a client writes.
Lines == {<<cmd, " ", d, "\n">> : cmd \in Commands, d \in TagDigits}

\* Ctrl::ShowTag(tag), Ctrl::ToggleTag(tag), Ctrl::MoveToTag(tag, None)
ShowTag(tag) == [ctrl |-> "ShowTag", tag |-> tag]
CtrlToggleTag(tag) == [ctrl |-> "ToggleTag", tag |-> tag]
MoveToTag(tag) == [ctrl |-> "MoveToTag", tag |-> tag]
NoCtrlMsg == [ctrl |-> "none", tag |-> 0]

\* p.ends_with(suffix)
ends_with(p, suffix) ==
    /\ Len(p) >= Len(suffix)
    /\ SubSeq(p, Len(p) - Len(suffix) + 1, Len(p)) = suffix

\* let mut p = &buf[..]; less the "\r\n" or the "\n" it ends with.
strip_newline(buf) ==
    IF ends_with(buf, <<"\r", "\n">>) THEN SubSeq(buf, 1, Len(buf) - 2)
    ELSE IF ends_with(buf, <<"\n">>) THEN SubSeq(buf, 1, Len(buf) - 1)
    ELSE buf

RECURSIVE split(_, _)
\* p.split(sep).collect(): the chunks between the separators, empty ones too.
split(p, sep) ==
    IF \A i \in 1..Len(p) : p[i] # sep
    THEN <<p>>
    ELSE <<SubSeq(p, 1, Min({i \in 1..Len(p) : p[i] = sep}) - 1)>>
         \o split(SubSeq(p, Min({i \in 1..Len(p) : p[i] = sep}) + 1, Len(p)), sep)

\* The value of a digit.
digit_value(d) == Min({k \in 1..Len(Digits) : Digits[k] = d}) - 1

RECURSIVE decimal(_)
decimal(chunk) ==
    IF chunk = <<>>
    THEN 0
    ELSE 10 * decimal(SubSeq(chunk, 1, Len(chunk) - 1)) + digit_value(chunk[Len(chunk)])

\* args[0].parse::<u32>(): <<ok, value>>.  Only a non-empty run of digits
\* parses.  Runs of up to nine digits fit a u32; no line of the model gives
\* a longer one, and none is taken to parse.
parse_u32(chunk) ==
    IF /\ chunk # <<>>
       /\ \A i \in 1..Len(chunk) : \E k \in 1..Len(Digits) : Digits[k] = chunk[i]
       /\ Len(chunk) <= 9
    THEN <<TRUE, decimal(chunk)>>
    ELSE <<FALSE, 0>>

\* The arms of `match cmd`: the message to send, or NoCtrlMsg where the arm
\* logs and continues, or does nothing.
match_cmd(cmd, args) ==
    IF cmd \notin {<<"move">>, <<"show">>, <<"toggle">>} THEN NoCtrlMsg
    ELSE IF Len(args) < 1 THEN NoCtrlMsg
    ELSE IF ~parse_u32(args[1])[1] THEN NoCtrlMsg
    ELSE IF cmd = <<"move">> THEN MoveToTag(parse_u32(args[1])[2])
    ELSE IF cmd = <<"show">> THEN ShowTag(parse_u32(args[1])[2])
    ELSE CtrlToggleTag(parse_u32(args[1])[2])

\* From `let chunks` on: split(" ") always yields one chunk at least.
parse_chunks(chunks) ==
    IF Len(chunks) = 0
    THEN NoCtrlMsg
    ELSE match_cmd(chunks[1], SubSeq(chunks, 2, Len(chunks)))

\* stream.read_line(&mut buf): the bytes of the line are appended to buf.
read_line(buf, line) == buf \o line

\* One turn of the loop of handle_ctrl_socket that read a line: the message
\* the turn sends, or NoCtrlMsg.
handle_line(buf) == parse_chunks(split(strip_newline(buf), " "))

\* The connections accepted so far.
Conns == 1..Len(streams)

\* The task handle_ctrl_socket as ctrl_listener spawns it.
spawned == [pc |-> "read_line", read |-> 0, buf |-> <<>>, msg |-> NoCtrlMsg,
            enqueued |-> <<>>]

\* The turn of the loop that read `line` into the task h: the task goes on
\* to send the message, or back to read_line when there is none.
turn(h, buf, msg) ==
    [h EXCEPT !.read = @ + 1,
              !.buf = buf,
              !.msg = msg,
              !.pc = IF msg = NoCtrlMsg THEN "read_line" ELSE "send"]

InitCtrl == NewState /\ NoMonitors /\ NoCtrl /\ NoRequeries /\ NoLoop

\* listener.accept() returns a connection and its task is spawned.
Accept ==
    /\ Len(streams) < MaxConns
    /\ streams' = Append(streams, [lines |-> <<>>, closed |-> FALSE])
    /\ handlers' = Append(handlers, spawned)
    /\ UNCHANGED <<channel, state_vars, monitors_vars,
                 topo_vars, loop_vars>>

\* A client writes one command line.
ClientWrite ==
    /\ \E c \in Conns, line \in Lines :
          /\ ~streams[c].closed
          /\ Len(streams[c].lines) < MaxLines
          /\ streams' = [streams EXCEPT ![c].lines = Append(@, line)]
    /\ UNCHANGED <<handlers, channel, state_vars, monitors_vars,
                 topo_vars, loop_vars>>

\* A client closes its connection.
ClientClose ==
    /\ \E c \in Conns :
          /\ ~streams[c].closed
          /\ streams' = [streams EXCEPT ![c].closed = TRUE]
    /\ UNCHANGED <<handlers, channel, state_vars, monitors_vars,
                 topo_vars, loop_vars>>

\* stream.read_line(&mut buf).await returns a line, and the turn of the
\* loop up to tx.send(..) or continue.
ReadLine ==
    /\ \E c \in Conns :
          /\ handlers[c].pc = "read_line"
          /\ handlers[c].read < Len(streams[c].lines)
          /\ \E buf \in {read_line(handlers[c].buf,
                                   streams[c].lines[handlers[c].read + 1])} :
                handlers' = [handlers EXCEPT ![c] = turn(@, buf, handle_line(buf))]
    /\ UNCHANGED <<streams, channel, state_vars, monitors_vars,
                 topo_vars, loop_vars>>

\* stream.read_line returns Ok(0): the loop breaks and the task ends.
ReadEof ==
    /\ \E c \in Conns :
          /\ handlers[c].pc = "read_line"
          /\ handlers[c].read = Len(streams[c].lines)
          /\ streams[c].closed
          /\ handlers' = [handlers EXCEPT ![c].pc = "done"]
    /\ UNCHANGED <<streams, channel, state_vars, monitors_vars,
                 topo_vars, loop_vars>>

\* tx.send(msg).await completes: the channel has room.
Send ==
    /\ \E c \in Conns :
          /\ handlers[c].pc = "send"
          /\ Len(channel) < ChannelCapacity
          /\ channel' = Append(channel, handlers[c].msg)
          /\ handlers' = [handlers EXCEPT ![c].pc = "read_line",
                                          ![c].msg = NoCtrlMsg,
                                          ![c].enqueued = Append(@, handlers[c].msg)]
    /\ UNCHANGED <<streams, state_vars, monitors_vars,
                 topo_vars, loop_vars>>

\* rx.recv() of the main loop returns the oldest message.
Recv ==
    /\ channel # <<>>
    /\ channel' = Tail(channel)
    /\ UNCHANGED <<streams, handlers, state_vars, monitors_vars,
                 topo_vars, loop_vars>>

NextCtrl ==
    \/ Accept
    \/ ClientWrite
    \/ ClientClose
    \/ ReadLine
    \/ ReadEof
    \/ Send
    \/ Recv

SpecCtrl == InitCtrl /\ [][NextCtrl]_vars

(***************************************************************************)
(* Monitors added while the daemon runs (src/src/monitor.rs).  The event   *)
(* monitoraddedv2 only carries a name: monitor_added spawns a task that    *)
(* asks the window manager for its topology (hyprctl_monitors), builds the *)
(* Monitor and sends it back as Ctrl::MonitorAdded; the main loop hands    *)
(* the message to monitor_added_with_object.                               *)
(*                                                                         *)
(* topology is what hyprctl_monitors would return now, requeries are the   *)
(* names the spawned tasks look for, channel holds the messages sent.      *)
(***************************************************************************)

\* Number of monitor-added events under way at once: a task running or its
\* message waiting on the channel.
MaxRequeries == 2

\* Ctrl::MonitorAdded(monitor)
CtrlMonitorAdded(monitor) == [ctrl |-> "MonitorAdded", monitor |-> monitor]

\* The positions of the MonitorInfo named name in what hyprctl_monitors
\* returned.
infos_named(infos, name) == {k \in 1..Len(infos) : infos[k].name = name}

\* MonitorsState::monitor_added up to tokio::spawn: Err for a registered
\* name, Ok (and a task) otherwise.  The MonitorsState is not written.
MonitorsState_monitor_added(ms, name) ==
    IF named(ms, name) # {} THEN MonErr(ms) ELSE MonOk(ms)

\* The task monitor_added spawns, once hyprctl_monitors has returned infos:
\* the messages it sends (none when no MonitorInfo has the name).
requery_found(infos, name) ==
    IF infos_named(infos, name) = {}
    THEN <<>>
    ELSE <<CtrlMonitorAdded(
              Monitor(infos[Min(infos_named(infos, name))].id,
                      infos[Min(infos_named(infos, name))].name,
                      new))>>

\* hyprctl_monitors() failed: the task logs and returns.
requery_failed == <<>>

\* A Vec without its element of position k (1-based).
without_at(v, k) == [i \in 1..(Len(v) - 1) |-> IF i < k THEN v[i] ELSE v[i + 1]]

\* The daemon starts on the topology of the window manager; no event is
\* under way.
InitTopo ==
    /\ NewState
    /\ NoLoop
    /\ streams = <<>>
    /\ handlers = <<>>
    /\ channel = <<>>
    /\ panicked = FALSE
    /\ topology = Topology(0)
    /\ requeries = <<>>
    /\ monitors = from_monitor_infos(Topology(0)).monitors
    /\ active_monitor_index = from_monitor_infos(Topology(0)).active_monitor_index

\* The window manager gets a monitor: a name none of its monitors has, with
\* the id this name has in the topology at startup.
Plug ==
    /\ \E name \in MonitorNames :
          /\ infos_named(topology, name) = {}
          /\ topology' = Append(topology, MonitorInfo(name - 1, name, FALSE))
    /\ UNCHANGED <<requeries, state_vars, monitors_vars, ctrl_vars, loop_vars>>

\* The window manager loses a monitor.
Unplug ==
    /\ \E k \in 1..Len(topology) : topology' = without_at(topology, k)
    /\ UNCHANGED <<requeries, state_vars, monitors_vars, ctrl_vars, loop_vars>>

\* The event monitoraddedv2>>name is handled: monitor_added(name, tx).
MonitorAddedEvent ==
    /\ ~panicked
    /\ Len(requeries) + Len(channel) < MaxRequeries
    /\ \E name \in MonitorNames :
          \E r \in {MonitorsState_monitor_added(Ms, name)} :
             /\ monitors' = r.ms.monitors
             /\ active_monitor_index' = r.ms.active_monitor_index
             /\ panicked' = r.panic
             /\ requeries' = IF r.ok THEN Append(requeries, name) ELSE requeries
    /\ UNCHANGED <<topology, state_vars, ctrl_vars, loop_vars>>

\* A spawned task gets the answer of hyprctl_monitors, or its failure, and
\* ends, after tx.send(..) when it found its monitor.
RequeryCompletes ==
    /\ \E k \in 1..Len(requeries) :
          \E sent \in {requery_found(topology, requeries[k]), requery_failed} :
             /\ Len(channel) + Len(sent) <= ChannelCapacity
             /\ channel' = channel \o sent
             /\ requeries' = without_at(requeries, k)
    /\ UNCHANGED <<topology, streams, handlers, state_vars, monitors_vars, loop_vars>>

\* The main loop receives Ctrl::MonitorAdded(monitor) and integrates it:
\* monitor_added_with_object(monitor).
HandleMonitorAdded ==
    /\ ~panicked
    /\ channel # <<>>
    /\ \E r \in {MonitorsState_monitor_added_with_object(Ms, Head(channel).monitor)} :
          /\ monitors' = r.ms.monitors
          /\ active_monitor_index' = r.ms.active_monitor_index
          /\ panicked' = r.panic
    /\ channel' = Tail(channel)
    /\ UNCHANGED <<topology, requeries, streams, handlers, state_vars, loop_vars>>

NextTopo ==
    \/ Plug
    \/ Unplug
    \/ MonitorAddedEvent
    \/ RequeryCompletes
    \/ HandleMonitorAdded
    \/ MonitorRemoved

SpecTopo == InitTopo /\ [][NextTopo]_vars

(***************************************************************************)
(* The daemon of src/src/main.rs: its own State (the tags, the mask        *)
(* active_tags, the active tag and the active window), the handler of the  *)
(* event lines (handle_event_stream), the handler of the control messages  *)
(* (handle_ctrl) and the loop of main that selects between the event       *)
(* socket and the channel.                                                 *)
(*                                                                         *)
(* A text is the sequence of its symbols, as on the control socket; a      *)
(* window address is the text the event carries ("" is <<>>).  The u32 of  *)
(* the program has one bit per tag, so the u32 of the model has NumTags    *)
(* bits.  Arithmetic overflow panics in a build with overflow checks (the  *)
(* default of `cargo build`) and wraps in one without (`--release`).       *)
(***************************************************************************)

\* u32::MAX + 1
Word == shl1(NumTags)

\* tag - 1 on u32: <<it overflows, the wrapped value>>
sub1(tag) == <<tag < 1, (tag - 1) % Word>>

\* 1 << n on u32: <<it overflows, the value with the shift amount wrapped>>
shl(n) == <<n >= NumTags, shl1(n % NumTags)>>

\* State::new of main.rs
State_new ==
    [active_tags |-> 1,
     active_tag |-> 1,
     active_tag_index |-> 0,
     active_window |-> <<>>,
     tags |-> [n \in 1..NumTags |-> <<>>]]

\* The workspace a hidden tag is parked on is 100 + its index.
ParkingBase == 100

\* "dispatch movetoworkspacesilent {ws},address:0x{addr}" and
\* "dispatch focuswindow address:0x{addr}"
movetoworkspacesilent(ws, addr) ==
    [dispatch |-> "movetoworkspacesilent", ws |-> ws, addr |-> addr]
focuswindow(addr) == [dispatch |-> "focuswindow", ws |-> 0, addr |-> addr]

\* What a handler leaves: the State, the batches it handed to hyprctl(..),
\* in order, and whether it panicked.
Handled(s, batches) == [s |-> s, batches |-> batches, panic |-> FALSE]
Panicked(s, batches) == [s |-> s, batches |-> batches, panic |-> TRUE]

\* state.tags.iter_mut().enumerate().find_map(..): <<tag_index,
\* window_index>> of the first tag holding the window and its first place.
query(s, window) == find_window_indexes(s, window)

\* state.tags.get_mut(index) is Some
has_tag(index) == index \in 0..(NumTags - 1)

(***************************************************************************)
(* handle_event_stream                                                     *)
(***************************************************************************)

\* The lines the window manager writes on the event socket.
EventNames == {"openwindow", "closewindow", "activewindowv2"}
EventLines ==
    {<<name, ">>", Digits[w + 1], "\n">> : name \in EventNames, w \in Windows}

\* parse_line: the line less its last byte, split on ">>"; <<cmd, id>>
\* where id is the first of the comma-separated arguments, or "".
parse_args(chunks) ==
    IF Len(chunks) >= 2
    THEN <<chunks[1], split(chunks[2], ",")[1]>>
    ELSE <<chunks[1], <<>>>>

parse_line(line) == parse_args(split(SubSeq(line, 1, Len(line) - 1), ">>"))

\* "closewindow": the window leaves the tag that holds it.
closewindow(s, idx) ==
    IF idx[1] = NoIndex
    THEN s
    ELSE [s EXCEPT !.tags = remove_window(@, idx[1], idx[2])]

\* "activewindowv2": the tag holding the window becomes the active tag; an
\* unknown window is pushed on the active tag.
activewindowv2(s, id, tag_index) ==
    IF tag_index # NoIndex
    THEN [s EXCEPT !.active_tag = tag_index + 1,
                   !.active_tag_index = tag_index,
                   !.active_window = id]
    ELSE [s EXCEPT !.tags = IF has_tag(s.active_tag_index)
                            THEN push_window(@, s.active_tag_index, id)
                            ELSE @,
                   !.active_window = id]

\* The arms of `match cmd`, for an id that is not "".
handle_event(s, cmd, id) ==
    IF id = <<>> THEN s
    ELSE IF cmd = <<"closewindow">> THEN closewindow(s, query(s, id))
    ELSE IF cmd = <<"activewindowv2">>
         THEN activewindowv2(s, id, find_window_tag_index(s, id))
    ELSE s

\* handle_event_stream(&mut state, &buf)
handle_event_stream(s, buf) ==
    handle_event(s, parse_line(buf)[1], parse_line(buf)[2])

(***************************************************************************)
(* handle_ctrl                                                             *)
(***************************************************************************)

\* The windows of the tag of index n, each moved to workspace ws.
move_all(s, n, ws) ==
    [i \in 1..Len(s.tags[n + 1]) |-> movetoworkspacesilent(ws, s.tags[n + 1][i])]

\* windows.iter().find(|w| **w == state.active_window)
\*     .or(windows.iter().next()), as the focuswindow command it gives.
focus_args(windows, active) ==
    IF \E i \in 1..Len(windows) : windows[i] = active
    THEN <<focuswindow(active)>>
    ELSE IF windows # <<>> THEN <<focuswindow(windows[1])>>
    ELSE <<>>

\* Ctrl::MoveToTag once the window is found at idx in a tag that is not the
\* target: it leaves its tag first, and joins the target if there is one.
move_to_target(s, target_index, window, idx) ==
    IF ~has_tag(target_index)
    THEN Handled([s EXCEPT !.tags = remove_window(@, idx[1], idx[2])], <<>>)
    ELSE Handled(
            [s EXCEPT !.tags = push_window(remove_window(@, idx[1], idx[2]),
                                           target_index, window)],
            <<<<movetoworkspacesilent(
                   IF s.active_tag = target_index + 1
                   THEN 1
                   ELSE ParkingBase + target_index,
                   window)>>>>)

move_queried(s, target_index, window, idx) ==
    IF idx[1] = NoIndex THEN Handled(s, <<>>)
    ELSE IF idx[1] = target_index THEN Handled(s, <<>>)
    ELSE move_to_target(s, target_index, window, idx)

\* Ctrl::MoveToTag(tag, None)
move_to_tag(s, tag, overflow_checks) ==
    IF sub1(tag)[1] /\ overflow_checks THEN Panicked(s, <<>>)
    ELSE IF s.active_window = <<>> THEN Handled(s, <<>>)
    ELSE move_queried(s, sub1(tag)[2], s.active_window, query(s, s.active_window))

\* One turn of `for n in 0..32` of Ctrl::ShowTag: the batch it hands to
\* hyprctl, if any.
show_turn(s, target_index, n) ==
    IF bit_set(s.active_tags, n)
    THEN IF n # target_index
         THEN <<move_all(s, n, ParkingBase + n)>>
         ELSE <<>>
    ELSE IF n = target_index
         THEN <<move_all(s, n, 1) \o focus_args(s.tags[n + 1], s.active_window)>>
         ELSE <<>>

RECURSIVE show_loop(_, _, _)
show_loop(s, target_index, n) ==
    IF n >= NumTags
    THEN <<>>
    ELSE show_turn(s, target_index, n) \o show_loop(s, target_index, n + 1)

\* The three assignments that end Ctrl::ShowTag; 1<<target_index is the
\* second.
show_assign(s, tag, target_index, overflow_checks, batches) ==
    IF shl(target_index)[1] /\ overflow_checks
    THEN Panicked([s EXCEPT !.active_tag = tag], batches)
    ELSE Handled([s EXCEPT !.active_tag = tag,
                           !.active_tags = shl(target_index)[2],
                           !.active_tag_index = target_index],
                 batches)

\* Ctrl::ShowTag(tag)
show_tag(s, tag, overflow_checks) ==
    IF sub1(tag)[1] /\ overflow_checks THEN Panicked(s, <<>>)
    ELSE show_assign(s, tag, sub1(tag)[2], overflow_checks,
                     show_loop(s, sub1(tag)[2], 0))

RECURSIVE active_windows_from(_, _)
\* The windows of the tags of active_tags, from the tag of index n on.
active_windows_from(s, n) ==
    IF n >= NumTags
    THEN <<>>
    ELSE (IF bit_set(s.active_tags, n) THEN s.tags[n + 1] ELSE <<>>)
         \o active_windows_from(s, n + 1)

\* The end of Ctrl::ToggleTag: the focus goes to the active window if it is
\* shown, to the first window shown otherwise.
toggle_focus(s, batches) ==
    Handled(s,
        batches \o
        (IF focus_args(active_windows_from(s, 0), s.active_window) = <<>>
         THEN <<>>
         ELSE <<focus_args(active_windows_from(s, 0), s.active_window)>>))

\* Ctrl::ToggleTag once 1<<target_index is known to be the bit b.
toggle_bit(s, target_index, b) ==
    IF ~bit_set(s.active_tags, b)
    THEN IF ~has_tag(target_index)
         THEN Handled(s, <<>>)
         ELSE toggle_focus([s EXCEPT !.active_tags = or_bit(@, b)],
                           <<move_all(s, target_index, 1)>>)
    ELSE IF clear_bit(s.active_tags, b) = 0 THEN Handled(s, <<>>)
    ELSE IF ~has_tag(target_index) THEN Handled(s, <<>>)
    ELSE toggle_focus([s EXCEPT !.active_tags = clear_bit(@, b)],
                      <<move_all(s, target_index, ParkingBase + target_index)>>)

\* Ctrl::ToggleTag(tag)
ctrl_toggle_tag(s, tag, overflow_checks) ==
    IF sub1(tag)[1] /\ overflow_checks THEN Panicked(s, <<>>)
    ELSE IF shl(sub1(tag)[2])[1] /\ overflow_checks THEN Panicked(s, <<>>)
    ELSE toggle_bit(s, sub1(tag)[2], sub1(tag)[2] % NumTags)

\* handle_ctrl(&mut state, msg)
handle_ctrl(s, msg, overflow_checks) ==
    IF msg.ctrl = "MoveToTag" THEN move_to_tag(s, msg.tag, overflow_checks)
    ELSE IF msg.ctrl = "ShowTag" THEN show_tag(s, msg.tag, overflow_checks)
    ELSE ctrl_toggle_tag(s, msg.tag, overflow_checks)

(***************************************************************************)
(* The loop of main.  Each turn selects between read_line on the event     *)
(* socket and recv on the channel; the branch that completes first runs    *)
(* its handler and the other future is dropped.  read_line moves what the  *)
(* socket holds into its buffer as it is polled, and completes when it     *)
(* meets the newline; the buffer is the `buf` of the turn.                 *)
(*                                                                         *)
(* event_sock.unread is what the window manager wrote and the daemon has   *)
(* not read, event_sock.rest what is left to write of the line the window  *)
(* manager is writing; partial is what the pending read_line holds.  The   *)
(* batches a handler hands to hyprctl(..) are output of the daemon.        *)
(***************************************************************************)

\* Number of event lines written and not yet read, and number of control
\* messages on the channel, that the environment lets build up.
MaxUnread == 1
MaxQueued == 1

\* The command lines of the control clients: any tag number from 0 to one
\* past the last tag.
AnyTagDigits == {Digits[k + 1] : k \in 0..(NumTags + 1)}
CommandLines == {<<cmd, " ", d, "\n">> : cmd \in Commands, d \in AnyTagDigits}

has_newline(bytes) == \E i \in 1..Len(bytes) : bytes[i] = "\n"
newlines(bytes) == Cardinality({i \in 1..Len(bytes) : bytes[i] = "\n"})

\* What read_line takes from the bytes the socket holds: all of them up to
\* and including the first newline; and what it leaves.
taken(bytes) ==
    IF has_newline(bytes)
    THEN SubSeq(bytes, 1, Min({i \in 1..Len(bytes) : bytes[i] = "\n"}))
    ELSE bytes
left(bytes) == SubSeq(bytes, Len(taken(bytes)) + 1, Len(bytes))

InitLoop ==
    /\ NewState
    /\ NoMonitors
    /\ NoRequeries
    /\ NoCtrl
    /\ daemon = State_new
    /\ \E overflow_checks \in BOOLEAN :
          main_loop = [pc |-> "select", overflow_checks |-> overflow_checks]
    /\ event_sock = [unread |-> <<>>, rest |-> <<>>, closed |-> FALSE]
    /\ partial = <<>>

\* The window manager writes an event line; the socket takes the first k
\* bytes now.
WmWrite ==
    /\ ~event_sock.closed
    /\ event_sock.rest = <<>>
    /\ newlines(event_sock.unread) < MaxUnread
    /\ \E line \in EventLines, k \in 1..4 :
          /\ k <= Len(line)
          /\ event_sock' = [event_sock EXCEPT
                               !.unread = @ \o SubSeq(line, 1, k),
                               !.rest = SubSeq(line, k + 1, Len(line))]
    /\ UNCHANGED <<daemon, main_loop, partial, state_vars, monitors_vars,
                   ctrl_vars, topo_vars>>

\* The socket takes the rest of the line.
WmFlush ==
    /\ event_sock.rest # <<>>
    /\ event_sock' = [event_sock EXCEPT !.unread = @ \o event_sock.rest,
                                        !.rest = <<>>]
    /\ UNCHANGED <<daemon, main_loop, partial, state_vars, monitors_vars,
                   ctrl_vars, topo_vars>>

\* The window manager closes the event socket.
WmClose ==
    /\ ~event_sock.closed
    /\ event_sock.rest = <<>>
    /\ event_sock' = [event_sock EXCEPT !.closed = TRUE]
    /\ UNCHANGED <<daemon, main_loop, partial, state_vars, monitors_vars,
                   ctrl_vars, topo_vars>>

\* A control client connects and writes one command line; its task reads
\* it, parses it and, for a line that gives a message, sends the message.
ClientCommand ==
    /\ Len(channel) < MaxQueued
    /\ Len(channel) < ChannelCapacity
    /\ \E line \in CommandLines :
          \E msg \in {handle_line(read_line(<<>>, line))} :
             /\ msg # NoCtrlMsg
             /\ channel' = Append(channel, msg)
    /\ UNCHANGED <<streams, handlers, loop_vars, state_vars, monitors_vars,
                   topo_vars>>

\* read_line is polled while the socket holds bytes but no newline: it
\* takes them and stays pending.
ReadPending ==
    /\ main_loop.pc = "select"
    /\ event_sock.unread # <<>>
    /\ ~has_newline(event_sock.unread)
    /\ partial' = partial \o event_sock.unread
    /\ event_sock' = [event_sock EXCEPT !.unread = <<>>]
    /\ UNCHANGED <<daemon, main_loop, state_vars, monitors_vars, ctrl_vars,
                   topo_vars>>

\* read_line completes with a line: handle_event_stream(&mut state, &buf).
ReadEvent ==
    /\ main_loop.pc = "select"
    /\ has_newline(event_sock.unread)
    /\ daemon' = handle_event_stream(daemon, partial \o taken(event_sock.unread))
    /\ partial' = <<>>
    /\ event_sock' = [event_sock EXCEPT !.unread = left(@)]
    /\ UNCHANGED <<main_loop, state_vars, monitors_vars, ctrl_vars, topo_vars>>

\* read_line completes with Ok(0): break, and main returns Ok(()).
LoopEof ==
    /\ main_loop.pc = "select"
    /\ event_sock.unread = <<>>
    /\ event_sock.closed
    /\ partial = <<>>
    /\ main_loop' = [main_loop EXCEPT !.pc = "exited"]
    /\ UNCHANGED <<daemon, event_sock, partial, state_vars, monitors_vars,
                   ctrl_vars, topo_vars>>

\* rx.recv() completes with a message: handle_ctrl(&mut state, msg).  The
\* pending read_line is dropped with what it holds.
LoopRecv ==
    /\ main_loop.pc = "select"
    /\ channel # <<>>
    /\ \E r \in {handle_ctrl(daemon, Head(channel), main_loop.overflow_checks)} :
          /\ daemon' = r.s
          /\ main_loop' = [main_loop EXCEPT
                              !.pc = IF r.panic THEN "panicked" ELSE @]
    /\ channel' = Tail(channel)
    /\ partial' = <<>>
    /\ UNCHANGED <<event_sock, streams, handlers, state_vars, monitors_vars,
                   topo_vars>>

NextLoop ==
    \/ WmWrite
    \/ WmFlush
    \/ WmClose
    \/ ClientCommand
    \/ ReadPending
    \/ ReadEvent
    \/ LoopEof
    \/ LoopRecv

SpecLoop == InitLoop /\ [][NextLoop]_vars

\* select! polls its branches in random order: a branch that stays ready
\* is taken in the end.  The read branch at end of stream is LoopEof, the
\* channel branch is LoopRecv.
SpecLoopFair ==
    /\ InitLoop
    /\ [][NextLoop]_vars
    /\ WF_vars(LoopEof)
    /\ WF_vars(LoopRecv)

(***************************************************************************)
(* Vocabulary of the properties                                            *)
(***************************************************************************)

\* The addresses of a vector / of a set of WindowInfo.
AddrsOfSeq(v) == {v[i].addr : i \in 1..Len(v)}
AddrsOf(infos) == {x.addr : x \in infos}

\* The windows some tag of s holds.
Tracked(s) == {w \in Windows : holders(s, w) # {}}

\* How many entries of all the tags of s are the address w.
RECURSIVE OccurrencesFrom(_, _, _)
OccurrencesFrom(s, w, n) ==
    IF n >= NumTags
    THEN 0
    ELSE Cardinality(positions(s.tags[n + 1], w)) + OccurrencesFrom(s, w, n + 1)

Occurrences(s, w) == OccurrencesFrom(s, w, 0)

\* The visibility masks with exactly the bit of tag id t set.
OnlyTag(t) == shl1(t - 1)

(***************************************************************************)
(* C1  visible_tags is never 0, whatever calls were made, successful or    *)
(*     failing.                                                            *)
(***************************************************************************)
Inv_C1_VisibleTagsNonZero == visible_tags # 0

\* A State with a history (prev_tags differs from visible_tags, a window is
\* tracked) where hiding the only visible tag was refused.
Wit_C1 ==
    \E t \in TagIds :
        /\ visible_tags = OnlyTag(t)
        /\ prev_tags # visible_tags
        /\ Tracked(St) # {}
        /\ ~toggle_tag(St, t).ok
        /\ ~set_visible_tags(St, 0).ok

(***************************************************************************)
(* C2  No address is held twice: every tracked window is in exactly one    *)
(*     tag and once in it.                                                 *)
(***************************************************************************)
Inv_C2_OneTagPerWindow == \A w \in Windows : Occurrences(St, w) <= 1

\* Two windows tracked on two different tags, one of them on a hidden tag
\* other than the active one (it was moved there, or the view moved on).
Wit_C2 ==
    \E w1, w2 \in Tracked(St) :
        /\ w1 # w2
        /\ holders(St, w1) # holders(St, w2)
        /\ ~bit_set(visible_tags, find_window_tag_index(St, w2))
        /\ Occurrences(St, w1) = 1 /\ Occurrences(St, w2) = 1

(***************************************************************************)
(* C3  Whenever active_window is Some(w), w is held by some tag.           *)
(*     (Stated as claimed; window_removed leaves active_window alone.)     *)
(***************************************************************************)
Cex_C3_ActiveWindowTracked ==
    active_window # NoWindow => holders(St, active_window) # {}

(***************************************************************************)
(* C4  active_tag_index is the index of a tag whose bit is set in          *)
(*     visible_tags, from State::new on and after every call.              *)
(***************************************************************************)
Inv_C4_ActiveTagVisible ==
    /\ active_tag_index \in 0..(NumTags - 1)
    /\ bit_set(visible_tags, active_tag_index)

\* The active tag is not the lowest visible one: set_visible_tags kept the
\* tag of the active window.
Wit_C4 ==
    /\ active_tag_index # 0
    /\ bit_set(visible_tags, 0)
    /\ active_window # NoWindow
    /\ find_window_tag_index(St, active_window) = active_tag_index

(***************************************************************************)
(* C5  The Changes of every successful set_visible_tags, toggle_tag,       *)
(*     restore_prev_tags and move_window is the exact difference, by       *)
(*     address, of the visible windows before and after the call: added    *)
(*     and removed are disjoint, and the visible windows before, less      *)
(*     removed, plus added, are the visible windows after.                 *)
(***************************************************************************)
\* added and removed (sets of WindowInfo) are the exact difference of the
\* address sets before and after.
ExactDiff(before, after, added, removed) ==
    /\ AddrsOf(added) \cap AddrsOf(removed) = {}
    /\ (before \ AddrsOf(removed)) \cup AddrsOf(added) = after
    /\ AddrsOf(added) = after \ before
    /\ AddrsOf(removed) = before \ after
    /\ Cardinality(added) = Cardinality(AddrsOf(added))
    /\ Cardinality(removed) = Cardinality(AddrsOf(removed))

\* The Changes of the result r of a call made on St, when it succeeded.
ExactChanges(before, r) ==
    r.ok => ExactDiff(before, AddrsOfSeq(visible_windows(r.s)),
                      r.window_added, r.window_removed)

Inv_C5_ChangesAreExactDiff ==
    \A before \in {AddrsOfSeq(visible_windows(St))} :
        /\ \A m \in Masks : ExactChanges(before, set_visible_tags(St, m))
        /\ \A t \in TagIds : ExactChanges(before, toggle_tag(St, t))
        /\ ExactChanges(before, restore_prev_tags(St))
        /\ \A t \in TagArgs, w \in WindowArgs :
               ExactChanges(before, move_window(St, t, w))

\* A State, reached by restore_prev_tags or a second set_visible_tags
\* (prev_tags is not the initial mask), where one set_visible_tags both
\* reveals and hides windows and one move_window hides the window it moves.
Wit_C5 ==
    /\ prev_tags # new.prev_tags
    /\ \E m \in Masks :
           \E r \in {set_visible_tags(St, m)} :
               r.ok /\ r.window_added # {} /\ r.window_removed # {}
    /\ \E t \in TagIds, w \in Windows :
           \E r \in {move_window(St, t, w)} :
               r.ok /\ AddrsOf(r.window_removed) = {w} /\ r.window_added = {}

(***************************************************************************)
(* C6  visible_windows() is exactly the windows of the tags whose bit is   *)
(*     set in visible_tags, by ascending tag index and, within a tag, in   *)
(*     insertion order (the newest last); no window of a hidden tag is     *)
(*     in it.                                                              *)
(***************************************************************************)
\* The addresses visible_windows lists for the tag of index n, in its order.
AddrsTagged(v, n) ==
    [k \in 1..Len(SelectSeq(v, LAMBDA x : x.tag = n + 1)) |->
        SelectSeq(v, LAMBDA x : x.tag = n + 1)[k].addr]

VisibleOfTag(s, n) == AddrsTagged(visible_windows(s), n)

\* The sequence q without its entries equal to w.
Without(q, w) == SelectSeq(q, LAMBDA x : x # w)

VisibleIsWhatTheMaskSays ==
    \A v \in {visible_windows(St)} :
       /\ \A n \in 0..(NumTags - 1) :
              AddrsTagged(v, n) = IF bit_set(visible_tags, n) THEN tags[n + 1] ELSE <<>>
       /\ \A i \in 1..Len(v) :
              /\ bit_set(visible_tags, v[i].tag - 1)
              /\ positions(tags[v[i].tag], v[i].addr) # {}
       /\ \A i, j \in 1..Len(v) : i < j => v[i].tag <= v[j].tag

\* A window that enters a tag (new_window_added, focus_window_changed of an
\* unknown address, move_window) is listed after the windows the tag held,
\* and a window that leaves one does not reorder the others.
NewestLast ==
    /\ \A w \in Windows \ Tracked(St) :
           \A r \in {new_window_added(St, w), focus_window_changed(St, w)} :
               /\ r.ok
               /\ r.s.tags[active_tag_index + 1] = Append(tags[active_tag_index + 1], w)
               /\ VisibleOfTag(r.s, active_tag_index) = r.s.tags[active_tag_index + 1]
    /\ \A w \in Tracked(St) :
           /\ \A t \in TagIds :
                  \A r \in {move_window(St, t, w)} :
                      r.ok =>
                        \A n \in 0..(NumTags - 1) :
                            r.s.tags[n + 1] =
                                IF n = t - 1
                                THEN Append(tags[n + 1], w)
                                ELSE Without(tags[n + 1], w)
           /\ \A r \in {window_removed(St, w)} :
                  \A n \in 0..(NumTags - 1) : r.s.tags[n + 1] = Without(tags[n + 1], w)

Inv_C6_VisibleWindows == VisibleIsWhatTheMaskSays /\ NewestLast

\* Two windows share a visible tag, the second inserted after the first was
\* already there, while a higher tag is visible too.
Wit_C6 ==
    \E n \in 0..(NumTags - 1) :
        /\ Len(tags[n + 1]) >= 2
        /\ bit_set(visible_tags, n)
        /\ \E k \in 0..(NumTags - 1) : k # n /\ bit_set(visible_tags, k)
        /\ Len(visible_windows(St)) = Len(tags[n + 1])
        /\ tags[n + 1][1] > tags[n + 1][2]

(***************************************************************************)
(* C7  Hiding the last visible tag -- toggle_tag(t) when only the bit of   *)
(*     t is set, or set_visible_tags(0) -- fails and leaves every field    *)
(*     of the State as it was.                                             *)
(***************************************************************************)
Inv_C7_MaskEmptyIsNoOp ==
    /\ \A t \in TagIds :
           visible_tags = OnlyTag(t) =>
               \A r \in {toggle_tag(St, t)} : ~r.ok /\ r.s = St
    /\ \A r \in {set_visible_tags(St, 0)} : ~r.ok /\ r.s = St

\* Only one tag is visible, after a history that left prev_tags different,
\* an active window and a window on a hidden tag.
Wit_C7 ==
    \E t \in TagIds :
        /\ visible_tags = OnlyTag(t)
        /\ prev_tags # visible_tags
        /\ active_window # NoWindow
        /\ \E w \in Tracked(St) : ~bit_set(visible_tags, find_window_tag_index(St, w))
        /\ ~toggle_tag(St, t).ok

(***************************************************************************)
(* C8  For all non-zero masks A and B, set_visible_tags(A);                *)
(*     set_visible_tags(B); restore_prev_tags() leaves visible_tags = A,   *)
(*     and a second restore_prev_tags() leaves visible_tags = B.           *)
(*                                                                         *)
(*     Stated on every reachable State: set_visible_tags(A) succeeds and   *)
(*     leaves visible_tags = A; and from the State with visible_tags = A   *)
(*     (the one set_visible_tags(A) left is among them),                   *)
(*     set_visible_tags(B); restore_prev_tags() leaves visible_tags = A    *)
(*     and one more restore_prev_tags() leaves visible_tags = B.           *)
(***************************************************************************)
Inv_C8_RestoreSwaps ==
    /\ \A A \in Masks \ {0} :
           \A r1 \in {set_visible_tags(St, A)} :
               r1.ok /\ r1.s.visible_tags = A
    /\ \A A \in {visible_tags} :
       \A B \in Masks \ {0} :
           \A r2 \in {set_visible_tags(St, B)} :
           \A r3 \in {restore_prev_tags(r2.s)} :
           \A r4 \in {restore_prev_tags(r3.s)} :
               /\ r2.ok /\ r3.ok /\ r4.ok
               /\ r3.s.visible_tags = A
               /\ r4.s.visible_tags = B

\* The State after two set_visible_tags of different masks, neither of them
\* the initial one, from which restore_prev_tags goes back to the first.
Wit_C8 ==
    /\ prev_tags # visible_tags
    /\ prev_tags # new.visible_tags
    /\ visible_tags # new.visible_tags
    /\ Tracked(St) # {}
    /\ restore_prev_tags(St).s.visible_tags = prev_tags
    /\ restore_prev_tags(St).s.prev_tags = visible_tags

(***************************************************************************)
(* C9  A successful toggle_tag(t) changes bit t-1 of visible_tags and no   *)
(*     other bit, and toggle_tag(t); toggle_tag(t), when neither fails,    *)
(*     leaves visible_tags as it was.                                      *)
(***************************************************************************)
Inv_C9_ToggleTwice ==
    \A t \in TagIds :
        \A r1 \in {toggle_tag(St, t)} :
        \A r2 \in {toggle_tag(r1.s, t)} :
           /\ r1.ok =>
                \A n \in 0..(NumTags - 1) :
                    bit_set(r1.s.visible_tags, n) =
                        IF n = t - 1
                        THEN ~bit_set(visible_tags, n)
                        ELSE bit_set(visible_tags, n)
           /\ (r1.ok /\ r2.ok) => r2.s.visible_tags = visible_tags

\* A visible tag that can be toggled off (another tag is visible) and back.
Wit_C9 ==
    \E t \in TagIds :
        /\ bit_set(visible_tags, t - 1)
        /\ visible_tags # OnlyTag(t)
        /\ Len(tags[t]) > 0
        /\ toggle_tag(St, t).ok
        /\ toggle_tag(toggle_tag(St, t).s, t).ok

(***************************************************************************)
(* C10 For a tracked window w on tag t_orig and a tag t other than t_orig, *)
(*     move_window(t, w); move_window(t_orig, w) both succeed and leave w  *)
(*     on t_orig and on no other tag, with visible_tags unchanged.         *)
(***************************************************************************)
Inv_C10_MoveBack ==
    \A w \in Tracked(St) :
        \A orig \in {find_window_tag_index(St, w)} :
        \A t \in TagIds \ {orig + 1} :
        \A r1 \in {move_window(St, t, w)} :
        \A r2 \in {move_window(r1.s, orig + 1, w)} :
            /\ r1.ok /\ r2.ok
            /\ holders(r1.s, w) = {t - 1}
            /\ holders(r2.s, w) = {orig}
            /\ Occurrences(r2.s, w) = 1
            /\ r1.s.visible_tags = visible_tags
            /\ r2.s.visible_tags = visible_tags

\* A tracked window on a tag other than the first, next to another window,
\* that can be moved to a lower tag and back.
Wit_C10 ==
    \E w \in Tracked(St) :
        /\ find_window_tag_index(St, w) # 0
        /\ Len(tags[find_window_tag_index(St, w) + 1]) >= 2
        /\ move_window(St, 1, w).ok
        /\ move_window(move_window(St, 1, w).s, find_window_tag_index(St, w) + 1, w).ok

(***************************************************************************)
(* C11 After a successful set_visible_tags(mask): when the active window   *)
(*     is held by a tag whose bit is set in mask, active_window is kept    *)
(*     and active_tag_index is the index of that tag; otherwise            *)
(*     active_tag_index is the lowest set bit of mask, active_window is    *)
(*     none and the focus returned is the first window of the lowest       *)
(*     non-empty tag of mask (none when all its tags are empty).           *)
(***************************************************************************)
\* The lowest set bit of a non-zero mask.
LowestBit(m) == Min({n \in 0..(NumTags - 1) : bit_set(m, n)})

\* The tags of mask m that hold a window.
NonEmptyIn(s, m) == {n \in 0..(NumTags - 1) : bit_set(m, n) /\ Len(s.tags[n + 1]) > 0}

\* The first window of the lowest non-empty tag of m.
FirstWindowIn(s, m) ==
    IF NonEmptyIn(s, m) = {} THEN NoWindow ELSE s.tags[Min(NonEmptyIn(s, m)) + 1][1]

\* The active window of s is held by a tag of mask m.
ActiveStaysVisible(s, m) ==
    /\ s.active_window # NoWindow
    /\ \E n \in holders(s, s.active_window) : bit_set(m, n)

Inv_C11_ActiveAfterSetVisibleTags ==
    \A m \in Masks :
        \A r \in {set_visible_tags(St, m)} :
            r.ok =>
                IF ActiveStaysVisible(St, m)
                THEN /\ r.s.active_window = active_window
                     /\ holders(St, active_window) = {r.s.active_tag_index}
                ELSE /\ r.s.active_tag_index = LowestBit(m)
                     /\ r.s.active_window = NoWindow
                     /\ r.focus = FirstWindowIn(St, m)

\* The active window is on a tag that is not the lowest: one mask keeps it
\* (and the active tag is not the lowest bit of the mask), another hides it
\* and reports the first window of another tag as the focus.
Wit_C11 ==
    /\ active_window # NoWindow
    /\ \E m \in Masks :
           \E r \in {set_visible_tags(St, m)} :
               /\ r.ok /\ ActiveStaysVisible(St, m)
               /\ r.s.active_window = active_window
               /\ r.s.active_tag_index # LowestBit(m)
    /\ \E m \in Masks :
           \E r \in {set_visible_tags(St, m)} :
               /\ r.ok /\ ~ActiveStaysVisible(St, m)
               /\ r.s.active_window = NoWindow
               /\ r.focus # NoWindow

(***************************************************************************)
(* C12 A successful new_window_added(addr) appends addr to the tag at      *)
(*     active_tag_index and addr is in visible_windows() right after: a    *)
(*     new window is never recorded on a hidden tag, also when the view    *)
(*     was switched to an empty tag.                                       *)
(***************************************************************************)
Inv_C12_NewWindowIsVisible ==
    \A w \in Windows :
        \A r \in {new_window_added(St, w)} :
            r.ok =>
                /\ r.s.tags = [tags EXCEPT ![active_tag_index + 1] = Append(@, w)]
                /\ w \in AddrsOfSeq(visible_windows(r.s))

\* The view was switched to an empty tag other than the first while another
\* tag holds a window; a new window is then added.
Wit_C12 ==
    \E t \in TagIds \ {1} :
        /\ visible_tags = OnlyTag(t)
        /\ tags[t] = <<>>
        /\ Tracked(St) # {}
        /\ \E w \in Windows \ Tracked(St) :
               \E r \in {new_window_added(St, w)} :
                   r.ok /\ r.s.tags[t] = <<w>>

(***************************************************************************)
(* C13 The calls that fail for a reason of the state are no-ops:           *)
(*     new_window_added of a tracked address, window_removed of an         *)
(*     unknown one, move_window with no effective window, with an unknown  *)
(*     window, or to the tag the window is on, return an error and leave   *)
(*     every field of the State as it was.                                 *)
(***************************************************************************)
\* The call that gave r failed and left St.
FailedNoOp(r) == ~r.ok /\ r.s = St

Inv_C13_StateErrorsAreNoOps ==
    /\ \A w \in Tracked(St) :
           /\ FailedNoOp(new_window_added(St, w))
           /\ FailedNoOp(move_window(St, find_window_tag_index(St, w) + 1, w))
    /\ \A w \in Windows \ Tracked(St) :
           /\ FailedNoOp(window_removed(St, w))
           /\ \A t \in TagArgs : FailedNoOp(move_window(St, t, w))
    /\ active_window \notin Tracked(St) =>
           \A t \in TagArgs : FailedNoOp(move_window(St, t, NoWindow))
    /\ active_window \in Tracked(St) =>
           FailedNoOp(move_window(St, find_window_tag_index(St, active_window) + 1,
                                  NoWindow))

\* A State with a history, a tracked window next to another on its tag, an
\* unknown one and no active window: each of the five failures happens.
Wit_C13 ==
    /\ prev_tags # visible_tags
    /\ active_window = NoWindow
    /\ \E w \in Tracked(St), u \in Windows \ Tracked(St) :
           /\ ~new_window_added(St, w).ok
           /\ ~window_removed(St, u).ok
           /\ ~move_window(St, 1, NoWindow).ok
           /\ ~move_window(St, 1, u).ok
           /\ ~move_window(St, find_window_tag_index(St, w) + 1, w).ok

(***************************************************************************)
(* C14 new_window_added, window_removed and focus_window_changed, failing  *)
(*     or not, leave visible_tags, prev_tags and active_tag_index as they  *)
(*     were; visible_tags is changed by set_visible_tags, toggle_tag and   *)
(*     restore_prev_tags only (move_window leaves it too).                 *)
(***************************************************************************)
\* The call that gave r left the three fields as they are in St.
ViewKept(r) ==
    /\ r.s.visible_tags = visible_tags
    /\ r.s.prev_tags = prev_tags
    /\ r.s.active_tag_index = active_tag_index

Inv_C14_BookkeepingKeepsView ==
    /\ \A w \in Windows :
           /\ ViewKept(new_window_added(St, w))
           /\ ViewKept(window_removed(St, w))
           /\ ViewKept(focus_window_changed(St, w))
    /\ \A t \in TagArgs, w \in WindowArgs :
           move_window(St, t, w).s.visible_tags = visible_tags

\* The view has a history and the active tag is not the first; a window on
\* another tag than the active one gets the focus and can be removed, and an
\* unknown window can be added.
Wit_C14 ==
    /\ prev_tags # visible_tags
    /\ active_tag_index # 0
    /\ \E w \in Tracked(St), u \in Windows \ Tracked(St) :
           /\ find_window_tag_index(St, w) # active_tag_index
           /\ focus_window_changed(St, w).ok
           /\ focus_window_changed(St, w).s.active_window = w
           /\ window_removed(St, w).ok
           /\ new_window_added(St, u).ok

(***************************************************************************)
(* C15 Every successful move_window returns Changes with focus none and    *)
(*     leaves active_window, visible_tags and prev_tags as they were, also *)
(*     when the window moved is the active window and it goes to a hidden  *)
(*     tag.                                                                *)
(***************************************************************************)
Inv_C15_MoveKeepsFocus ==
    \A t \in TagArgs, w \in WindowArgs :
        \A r \in {move_window(St, t, w)} :
            r.ok =>
                /\ r.focus = NoWindow
                /\ r.s.active_window = active_window
                /\ r.s.visible_tags = visible_tags
                /\ r.s.prev_tags = prev_tags

\* The active window is visible and moves, by default, to a hidden tag.
Wit_C15 ==
    /\ active_window \in Tracked(St)
    /\ bit_set(visible_tags, find_window_tag_index(St, active_window))
    /\ \E t \in TagIds :
           \E r \in {move_window(St, t, NoWindow)} :
               /\ ~bit_set(visible_tags, t - 1)
               /\ r.ok
               /\ AddrsOf(r.window_removed) = {active_window}
               /\ holders(r.s, active_window) = {t - 1}

(***************************************************************************)
(* Vocabulary of the properties of the MonitorsState                       *)
(***************************************************************************)

\* The windows the monitor of index i tracks, and those any monitor tracks.
TrackedOn(ms, i) == Tracked(ms.monitors[i + 1].state)
TrackedAnywhere(ms) == {w \in Windows : tracking(ms, w) # {}}

\* <<monitor index, tag index>> of every place that holds window w.
Places(ms, w) ==
    {<<i, n>> \in (0..(Len(ms.monitors) - 1)) \X (0..(NumTags - 1)) :
        positions(ms.monitors[i + 1].state.tags[n + 1], w) # {}}

Cex_C17_RemovedEverywhere ==
    ~panicked =>
        \A w \in TrackedAnywhere(Ms) :
            \A r \in {MonitorsState_window_removed(Ms, w)} :
                ~r.panic => tracking(r.ms, w) = {}

(***************************************************************************)
(* C18 monitor_removed(name) with two monitors or more moves every window  *)
(*     of the departing monitor to the first other monitor and drops the   *)
(*     departing one: every window tracked anywhere before is tracked      *)
(*     after, those of the departing monitor by the first surviving one,   *)
(*     whatever the ids of the monitors are; with one monitor it fails     *)
(*     and leaves the MonitorsState as it was.  (Stated as claimed; the    *)
(*     loop passes the id of the surviving monitor where an index of the   *)
(*     vector is expected.)                                                *)
(***************************************************************************)
\* The result r of monitor_removed(name) on ms is what the claim says.
Migrated(ms, name, r) ==
    IF Len(ms.monitors) = 1
    THEN ~r.ok /\ r.ms = ms
    ELSE /\ r.ok
         /\ named(r.ms, name) = {}
         /\ Len(r.ms.monitors) = Len(ms.monitors) - 1
         /\ TrackedAnywhere(r.ms) = TrackedAnywhere(ms)
         /\ \A i \in named(ms, name) :
                \A w \in TrackedOn(ms, i) :
                    \A k \in tracking(r.ms, w) :
                        r.ms.monitors[k + 1].name =
                            ms.monitors[Min((0..(Len(ms.monitors) - 1)) \ {i}) + 1].name

Cex_C18_MonitorRemovedMigrates ==
    ~panicked =>
        \A name \in MonitorNames :
            named(Ms, name) # {} =>
                Migrated(Ms, name, MonitorsState_monitor_removed(Ms, name))

(***************************************************************************)
(* C19 A successful move_window_to_monitor(dest, window) takes the window  *)
(*     (the active window of the focused monitor when none is given) from  *)
(*     the monitor that holds it and adds it to the active tag of the      *)
(*     destination: after it the window is tracked by the destination      *)
(*     only and the windows tracked anywhere are the same.  When no        *)
(*     monitor tracks the window, or there is none, the call fails and no  *)
(*     State changes.                                                      *)
(***************************************************************************)
\* The window move_window_to_monitor works on: the one given, or the active
\* window of the focused monitor.
EffectiveWindow(ms, window) ==
    IF window # NoWindow
    THEN window
    ELSE ms.monitors[ms.active_monitor_index + 1].state.active_window

\* r is what move_window_to_monitor(dest, ..) may return for the window w.
MovedToMonitor(ms, dest, w, r) ==
    /\ r.ok =>
          /\ Places(r.ms, w) =
                {<<dest, r.ms.monitors[dest + 1].state.active_tag_index>>}
          /\ TrackedAnywhere(r.ms) = TrackedAnywhere(ms)
          /\ \A u \in Windows \ {w} : Places(r.ms, u) = Places(ms, u)
    /\ (w = NoWindow \/ tracking(ms, w) = {}) => ~r.ok /\ r.ms = ms

CtrlOfLine(line) ==
    [ctrl |-> CASE line[1] = "show" -> "ShowTag"
                [] line[1] = "toggle" -> "ToggleTag"
                [] line[1] = "move" -> "MoveToTag",
     tag |-> digit_value(line[3])]

Cex_C20_OneMessagePerLine ==
    \A c \in Conns :
        handlers[c].pc # "send" =>
            handlers[c].enqueued =
                [i \in 1..handlers[c].read |-> CtrlOfLine(streams[c].lines[i])]

(***************************************************************************)
(* C25 Whenever active_window is Some(w) and a tag holds w,                *)
(*     active_tag_index is the index of that tag, also after               *)
(*     focus_window_changed to a window of another visible tag and after   *)
(*     move_window of the active window.                                   *)
(*     (Stated as claimed; neither method writes active_tag_index.)        *)
(***************************************************************************)
Cex_C25_ActiveTagHoldsActiveWindow ==
    active_window \in Tracked(St) =>
        active_tag_index = find_window_tag_index(St, active_window)

(***************************************************************************)
(* C26 In the Changes of every successful set_visible_tags, toggle_tag,    *)
(*     restore_prev_tags and move_window, the tag carried by each          *)
(*     window_removed entry is the id of the tag that holds the window     *)
(*     once the call is over.                                              *)
(*     (Stated as claimed; move_window takes the entry from the snapshot   *)
(*     made before the window is relocated.)                               *)
(***************************************************************************)
\* Every window_removed entry of r names the tag that holds its window in
\* the State the call leaves.
ParkedWithOwner(r) ==
    r.ok =>
        \A x \in r.window_removed :
            x.tag = find_window_tag_index(r.s, x.addr) + 1

Cex_C26_ParkedInOwningTag ==
    /\ \A m \in Masks : ParkedWithOwner(set_visible_tags(St, m))
    /\ \A t \in TagIds : ParkedWithOwner(toggle_tag(St, t))
    /\ ParkedWithOwner(restore_prev_tags(St))
    /\ \A t \in TagArgs, w \in WindowArgs : ParkedWithOwner(move_window(St, t, w))

(***************************************************************************)
(* C28 prev_tags is never zero, so restore_prev_tags never fails with the  *)
(*     empty-mask error, whatever calls, failed or not, came before.       *)
(***************************************************************************)
Inv_C28_PrevTagsNonZero ==
    /\ prev_tags # 0
    /\ restore_prev_tags(St).ok

\* The mask was changed, the State is one where a toggle_tag and every
\* set_visible_tags(0) fail, and restore_prev_tags brings the old mask back.
Wit_C28 ==
    /\ prev_tags # visible_tags
    /\ ~set_visible_tags(St, 0).ok
    /\ \E t \in TagIds : ~toggle_tag(St, t).ok
    /\ restore_prev_tags(St).ok
    /\ restore_prev_tags(St).s.visible_tags = prev_tags

(***************************************************************************)
(* C27 After any sequence of calls on the MonitorsState,                   *)
(*     active_monitor_index is an index of the monitor vector, and a       *)
(*     monitor_removed of another monitor than the focused one leaves it   *)
(*     on the monitor that was focused.                                    *)
(*     (Stated as claimed; monitor_removed never writes the index.)        *)
(***************************************************************************)
\* The name of the monitor active_monitor_index designates.
FocusedName(ms) == ms.monitors[ms.active_monitor_index + 1].name

Cex_C27_ActiveMonitorIndexValid ==
    ~panicked =>
        /\ in_monitors(Ms, active_monitor_index)
        /\ \A name \in MonitorNames :
               \A r \in {MonitorsState_monitor_removed(Ms, name)} :
                   r.ok =>
                       /\ in_monitors(r.ms, r.ms.active_monitor_index)
                       /\ name # FocusedName(Ms) => FocusedName(r.ms) = FocusedName(Ms)

(***************************************************************************)
(* C24 Monitor names stay unique in the MonitorsState under every          *)
(*     interleaving of monitor-added events, completions of the spawned    *)
(*     re-queries and handlings of their messages: a message for a         *)
(*     registered name is rejected and leaves the monitors as they are,    *)
(*     the monitor vector only grows in the step that handles a message    *)
(*     (by the monitor of that message), and the step in which a task      *)
(*     ends leaves the MonitorsState alone.                                *)
(***************************************************************************)
NamesUnique(ms) ==
    \A i, j \in 1..Len(ms.monitors) :
        ms.monitors[i].name = ms.monitors[j].name => i = j

\* Handling the message m does not change the monitors when its name is
\* registered.
RejectedIfRegistered(m) ==
    named(Ms, m.monitor.name) # {} =>
        \A r \in {MonitorsState_monitor_added_with_object(Ms, m.monitor)} :
            ~r.ok /\ r.ms = Ms

NamesStayUnique ==
    /\ NamesUnique(Ms)
    /\ \A k \in 1..Len(channel) : RejectedIfRegistered(channel[k])

IntegratedOnlyOnMessage ==
    /\ Len(monitors') > Len(monitors) =>
          /\ channel # <<>>
          /\ channel' = Tail(channel)
          /\ monitors' = Append(monitors, Head(channel).monitor)
          /\ requeries' = requeries
    /\ requeries' # requeries => monitors' = monitors

Inv_C24_MonitorNamesUnique ==
    []NamesStayUnique /\ [][IntegratedOnlyOnMessage]_vars

\* Two events for one name were under way: the monitor of the first is
\* registered, the message of the second waits on the channel.
Wit_C24 ==
    /\ channel # <<>>
    /\ named(Ms, Head(channel).monitor.name) # {}
    /\ Len(monitors) = MaxMonitors
    /\ requeries = <<>>

(***************************************************************************)
(* C21 A control command whose tag number is not one of the tags (0, or    *)
(*     one past the last tag) is dropped: no message for it is on the      *)
(*     channel the main loop receives from, and the daemon keeps running.  *)
(*     (Stated as claimed; every number that parses as u32 is sent.)       *)
(***************************************************************************)
Cex_C21_InvalidTagDropped ==
    /\ \A k \in 1..Len(channel) : channel[k].tag \in TagIds
    /\ main_loop.pc # "panicked"

(***************************************************************************)
(* C23 The loop ends on the end of the event socket: it only leaves the    *)
(*     select by reading 0 bytes, once it has exited nothing changes the   *)
(*     State of the daemon, and while the loop runs with the end of the    *)
(*     socket pending, select being fair to both branches, the loop        *)
(*     eventually exits with success, whatever control messages arrive.    *)
(*     (Stated as claimed; a control message with tag 0 panics the loop    *)
(*     of a build with overflow checks before the end is read.)            *)
(***************************************************************************)
EofPending ==
    /\ main_loop.pc = "select"
    /\ event_sock.closed
    /\ event_sock.unread = <<>>

ExitsOnEof ==
    /\ main_loop.pc = "exited" => daemon' = daemon /\ main_loop' = main_loop
    /\ main_loop.pc # "exited" /\ main_loop'.pc = "exited" => EofPending

Cex_C23_LoopEndsOnEof ==
    /\ [][ExitsOnEof]_vars
    /\ EofPending ~> main_loop.pc = "exited"

(***************************************************************************)
(* C29 Every line written to the event socket is handed whole to           *)
(*     handle_event_stream: what a pending read_line has taken from the    *)
(*     socket only leaves its buffer as part of the line handed, and each  *)
(*     line handed is a line the window manager wrote.                     *)
(*     (Stated as claimed; a control message that arrives while a line is  *)
(*     partly read drops the read and the bytes it holds.)                 *)
(***************************************************************************)
\* The step hands a line to handle_event_stream: read_line took the bytes
\* up to the newline from the socket.
LineHanded ==
    /\ has_newline(event_sock.unread)
    /\ event_sock'.unread = left(event_sock.unread)

NoBytesLost == partial # <<>> /\ partial' = <<>> => LineHanded

WholeLines == LineHanded => (partial \o taken(event_sock.unread)) \in EventLines

Cex_C29_EventLinesWhole == [][NoBytesLost /\ WholeLines]_vars

(***************************************************************************)
(* C22 When the window manager applies the batches of two back-to-back     *)
(*     operations in the opposite order, re-issuing the last operation     *)
(*     converges: once the batch of the re-issued operation is applied,    *)
(*     the windows on the visible workspace of the monitor are exactly     *)
(*     the visible_windows of the daemon.                                  *)
(*     (Stated as claimed; the Changes of a call are the difference        *)
(*     between the windows visible before and after it, and a re-issued    *)
(*     call finds nothing to change.)                                      *)
(***************************************************************************)
\* The Dispatcher: the batch made of a Changes for the monitor of index
\* monitor_index.  Every window_removed entry goes to the parking workspace
\* of its tag, then every window_added entry to the visible workspace of
\* the monitor, then the focus is given.
Dispatcher(changes, monitor_index) ==
    [hide |-> {movetoworkspacesilent(
                   x.tag + ParkingBase + NumTags * monitor_index, x.addr) :
               x \in changes.window_removed},
     show |-> {movetoworkspacesilent(monitor_index + 1, x.addr) :
               x \in changes.window_added},
     focus |-> changes.focus]

\* hyprctl_batch(args): the detached tasks it spawns, none for no args.
hyprctl_batch(args) ==
    IF args.hide = {} /\ args.show = {} /\ args.focus = NoWindow
    THEN <<>>
    ELSE <<args>>

\* The workspaces the commands cmds move the window w to.
moved_to(cmds, w) == {c.ws : c \in {d \in cmds : d.addr = w}}

\* The window manager runs one batch: place gives the workspace of each
\* window.
wm_apply(place, batch) ==
    [w \in DOMAIN place |->
        IF moved_to(batch.show, w) # {}
        THEN CHOOSE ws \in moved_to(batch.show, w) : TRUE
        ELSE IF moved_to(batch.hide, w) # {}
        THEN CHOOSE ws \in moved_to(batch.hide, w) : TRUE
        ELSE place[w]]

RECURSIVE wm_apply_all(_, _)
\* The window manager runs the batches in the order they reach it.
wm_apply_all(place, batches) ==
    IF batches = <<>>
    THEN place
    ELSE wm_apply_all(wm_apply(place, Head(batches)), Tail(batches))

\* The operations that give a Changes, and the call each one is.
Operations ==
    {[op |-> "set_visible_tags", tags |-> m, window |-> NoWindow] : m \in Masks}
    \cup {[op |-> "toggle_tag", tags |-> t, window |-> NoWindow] : t \in TagIds}
    \cup {[op |-> "restore_prev_tags", tags |-> 0, window |-> NoWindow]}
    \cup {[op |-> "move_window", tags |-> t, window |-> w] :
             t \in TagIds, w \in WindowArgs}

perform(s, o) ==
    IF o.op = "set_visible_tags" THEN set_visible_tags(s, o.tags)
    ELSE IF o.op = "toggle_tag" THEN toggle_tag(s, o.tags)
    ELSE IF o.op = "restore_prev_tags" THEN restore_prev_tags(s)
    ELSE move_window(s, o.tags, o.window)

\* The tasks an operation that left r hands its batch to, on the monitor
\* of index 0.
BatchesOf(r) == hyprctl_batch(Dispatcher(r, 0))

Reversed(v) == [i \in 1..Len(v) |-> v[Len(v) + 1 - i]]

\* The placement the window manager has when it agrees with s: a visible
\* window is on the visible workspace of monitor 0, a hidden one on the
\* parking workspace of its tag.
InSync(s) ==
    [w \in Tracked(s) |->
        IF w \in AddrsOfSeq(visible_windows(s))
        THEN 1
        ELSE find_window_tag_index(s, w) + 1 + ParkingBase]

\* The windows on the visible workspace of the monitor of index 0.
Shown(place) == {w \in DOMAIN place : place[w] = 1}

\* a then b from s, their batches run in the opposite order, b once more.
ReissueConverges(s, a, b) ==
    \A ra \in {perform(s, a)} :
        ra.ok =>
        \A rb \in {perform(ra.s, b)} :
            rb.ok =>
            \A again \in {perform(rb.s, b)} :
                again.ok =>
                Shown(wm_apply_all(InSync(s),
                          Reversed(BatchesOf(ra) \o BatchesOf(rb))
                          \o BatchesOf(again)))
                    = AddrsOfSeq(visible_windows(again.s))

Cex_C22_ReissueConverges ==
    \A a \in Operations, b \in Operations : ReissueConverges(St, a, b)

====
